---- MODULE Spec2Model ----
(***************************************************************************)
(* State machine of the energy-chat dashboard's App component: the energy  *)
(* telemetry monitor (rolling window of prompt Wh readings), the study     *)
(* session state machine (start / end / reset), the prompt submission path *)
(* that feeds the per-prompt metric list, and the response streams of the  *)
(* chat pane and of the image-analysis pane, and the registry of the       *)
(* models in effect for the four modes.                                    *)
(*                                                                         *)
(* Energy readings are JavaScript numbers in Wh.  They are modelled as     *)
(* integers counting units of 0.05 Wh (0.3 Wh = 6, 0.5 Wh = 10,            *)
(* 2.4 Wh = 48, 12 Wh = 240); the readings used are even so that the mean  *)
(* of at most two of them is again a whole number of units.                *)
(*                                                                         *)
(* React runs every handler to completion on one thread and commits the    *)
(* queued state updates before the next event is dispatched; an action is  *)
(* one handler run (or one continuation after an await) together with the  *)
(* state updates it queued.  An updater function passed to a state setter  *)
(* runs once, on the state the previous event left.                        *)
(*                                                                         *)
(* Date.now() is the system clock, which may be set back: a handler that   *)
(* reads it gets any value of Times.                                       *)
(***************************************************************************)
EXTENDS Integers, Sequences, FiniteSets, TLC

VARIABLES
    \* --- energy telemetry monitor (App) ---
    promptWhHistory,      \* number[]           the Rolling Window
    lastPromptWhRef,      \* number | null      last-seen tracker (useRef)
    latestPromptWh,       \* number | null
    sessionTotalWh,       \* number | null
    todayTotalWh,         \* number | null
    kwhUsed,              \* <<numerator, denominator>> of the kWh figure
    lastPromptEnergyPct,  \* legacy percentage, latest prompt vs 1 Wh
    totalEnergyPct,       \* legacy percentage, session vs 10 Wh
    litresWater,
    powerStream,          \* the EventSource of streamPower: "open" | "closed"
    \* --- study session state machine (App) ---
    study,                \* StudySettings
    promptMetrics,        \* PromptMetric[]
    s1TotalWh,            \* number | null      session-1 reference value
    s1Store,              \* localStorage "ai4all.study.s1TotalWh.<id>"
    settingsStore,        \* localStorage "ai4all.study.settings": JSON text
    messages,             \* transcript (ChatPane state mirrored into App)
    currentModel,         \* string | null
    \* --- collaborators ---
    resetPending,         \* handleResetAll runs suspended at their await
    saveRequest,          \* bundles handed to saveStudySession by the last step
    \* --- panes and their response streams ---
    tab,                  \* the tab shown: its pane is the one mounted
    isStreaming,          \* boolean           busy flag of the mounted ChatPane
    turns,                \* Turn[]            of the mounted ImageAnalysisPane
    imageStreaming,       \* boolean           busy flag of ImageAnalysisPane
    streams,              \* runs of handleSend / handleAnalyze waiting on
                          \* their stream, each with its local accumulator
    thinkingMode,         \* "fast" | "deep"   of the mounted ChatPane
    sidePane,             \* messages and isLoading of the mounted
                          \* VibeCodingPane or WebChatPane
    pinnedChats,          \* string[]          of the mounted ChatPane
    pinnedStore,          \* localStorage "ai4all.pinnedChats": JSON text
    \* --- mode resolution registry (App) ---
    fastModel,            \* string | null     chat preset "Fast think"
    deepModel,            \* string | null     chat preset "Deep think"
    modeDefaults,         \* ModeDefaults | null: <<>> or <<defaults>>
    modeOverrides,        \* Partial<Record<ModeKey, string>>
    overrideKeys,         \* the keys modeOverrides owns, in insertion order
    overridesStore,       \* localStorage "ai4all.modeOverrides": JSON text
    defaultsPending,      \* the getModeDefaults request of the mount effect
                          \* with the presets its closure holds, or <<>>
    \* --- observation ---
    scenPos,              \* pushes of Scenario seen, in order, since a fresh window
    seqStep               \* progress of the latest run start -> end -> reset

vars == <<powerStream, promptWhHistory, lastPromptWhRef, latestPromptWh, sessionTotalWh,
          todayTotalWh, kwhUsed, lastPromptEnergyPct, totalEnergyPct,
          litresWater, study, promptMetrics, s1TotalWh, s1Store, settingsStore,
          messages, currentModel, resetPending, saveRequest,
          tab, isStreaming, turns, imageStreaming, streams, thinkingMode,
          sidePane, pinnedChats, pinnedStore,
          fastModel, deepModel, modeDefaults, modeOverrides, overrideKeys,
          overridesStore, defaultsPending,
          scenPos, seqStep>>

energyVars == <<powerStream, promptWhHistory, lastPromptWhRef, latestPromptWh,
                sessionTotalWh, todayTotalWh, kwhUsed, lastPromptEnergyPct,
                totalEnergyPct, litresWater>>

pinVars == <<pinnedChats, pinnedStore>>
paneVars == <<tab, isStreaming, turns, imageStreaming, streams, thinkingMode,
              sidePane, pinVars>>

overrideVars == <<modeOverrides, overrideKeys, overridesStore>>
modeVars == <<fastModel, deepModel, modeDefaults, overrideVars, defaultsPending>>

\* null of a number-typed field: an integer outside every value range
null == 0 - 1
\* null / undefined of a string-typed field
nullStr == "null"

----------------------------------------------------------------------------
\* Bounds of the model

\* values of Date.now()
MaxTime == 2
\* length of the transcript
MaxMsgs == 2
\* handleResetAll runs that may wait for the backend at the same time
MaxPending == 1
\* response streams open at the same time
MaxStreams == 2
\* delta frames of one response
MaxDeltas == 2
\* turns of the image-analysis pane
MaxTurns == 2

----------------------------------------------------------------------------
\* Program constants

WindowCapacity == 2
PromptBaselineWh == 1
SessionBaselineWh == 10
PctCap == 100
KwhDivisor == 1000

----------------------------------------------------------------------------
\* Input domains

\* latest_prompt_Wh of a push; null is an absent field
LatestWhInputs == {null, 0, 6, 10}
\* <<session_total_Wh, today_total_Wh>> of a push
TotalsInputs == {<<null, null>>, <<48, 240>>}
PushSummaries ==
    {[latest_prompt_Wh |-> l, session_total_Wh |-> t[1], today_total_Wh |-> t[2]] :
        l \in LatestWhInputs, t \in TotalsInputs}

\* the pushes that suffice to drive the study session state machine: the
\* totals of the scenario (2.4 Wh in the session), without and with a
\* latest-prompt reading
StudyPushSummaries ==
    {[latest_prompt_Wh |-> null, session_total_Wh |-> 48, today_total_Wh |-> 240],
     [latest_prompt_Wh |-> 10, session_total_Wh |-> 48, today_total_Wh |-> 240]}

ParticipantIds == {"", "P1"}
Groups == {"control", "intervention"}
Sessions == {1, 2}
Models == {"m1"}
\* prompt texts as character sequences: a blank one and " a b"
PromptTexts == {<<" ">>, <<" ", "a", " ", "b">>}
Times == 1..MaxTime
Tabs == {"chat", "image", "models"}
\* the tabs of VibeCodingPane and WebChatPane
SideTabs == {"vibe", "web"}
AllTabs == Tabs \cup SideTabs
\* the text of the k-th delta frame of a response; the consumers pass a
\* delta on only when it is not empty (if (payload.delta))
DeltaOf(k) == CASE k = 1 -> "x" [] k = 2 -> "y" [] OTHER -> "z"
\* Date.now() while the response streams are followed
StreamTimes == {1}
\* the prompt field of the image pane: blank, or its initial text
ImagePrompts == {<<" ">>, <<"Describe this image.">>}

----------------------------------------------------------------------------
\* Helpers

Min2(a, b) == IF a < b THEN a ELSE b

\* OrZero passing an absent field on
OrAbsent(x) == x

\* x ?? 0
OrZero(x) == IF x = null THEN 0 ELSE x

RECURSIVE SumSeq(_)
\* arr.reduce((sum, v) => sum + v, 0)
SumSeq(q) == IF q = <<>> THEN 0 ELSE q[1] + SumSeq(Tail(q))

\* AppendCapped without the shift: the window grows without bound
AppendNoShift(prev, latestWh) == Append(prev, latestWh)

\* const next = [...prev, latestWh]; if (next.length > 2) next.shift()
AppendCapped(prev, latestWh) ==
    LET next == Append(prev, latestWh)
    IN  IF Len(next) > WindowCapacity THEN Tail(next) ELSE next

\* Admits without the comparison with the last-seen reading
AdmitsAnyPositive(prevSeen, latestWh) == latestWh > 0

\* latestWh > 0 && latestWh !== prevSeen
Admits(prevSeen, latestWh) == latestWh > 0 /\ latestWh # prevSeen

\* the updater passed to setPromptWhHistory: the next Rolling Window
NextHistory(prev, prevSeen, latestWh) ==
    IF Admits(prevSeen, latestWh) THEN AppendCapped(prev, latestWh) ELSE prev

\* NextSeen with the assignment of the admitting branch left out
NextSeenNotOnAdmit(prevSeen, latestWh) ==
    IF latestWh > 0 /\ latestWh # prevSeen THEN prevSeen ELSE latestWh

\* NextSeen with the assignment of the other branch left out
NextSeenOnlyOnAdmit(prevSeen, latestWh) ==
    IF latestWh > 0 /\ latestWh # prevSeen THEN latestWh ELSE prevSeen

\* lastPromptWhRef.current after the updater ran: set on both branches
NextSeen(prevSeen, latestWh) == latestWh

\* last2AvgWh dividing by the capacity instead of the length
Last2AvgByCapacity ==
    IF Len(promptWhHistory) > 0
    THEN SumSeq(promptWhHistory) \div WindowCapacity
    ELSE null

\* the mean of the window, or null when it is empty
last2AvgWh ==
    IF Len(promptWhHistory) > 0
    THEN SumSeq(promptWhHistory) \div Len(promptWhHistory)
    ELSE null

\* Math.min(100, (wh / baseline) * 100), wh in units of 0.05 Wh
PctOf(wh, baselineWh) == Min2(PctCap, (wh * 100) \div (baselineWh * 20))

----------------------------------------------------------------------------
\* Energy telemetry monitor

\* the scenario pushes 0.3, 0.3, 0.5 Wh, and one more of 0.3 Wh
Scenario == <<6, 6, 10, 6>>
\* the observer of the scenario: the position reached, or null once the
\* pushes since the last fresh window departed from it
ScenarioNext(pos, latestWh) ==
    IF pos # null /\ pos < Len(Scenario) /\ Scenario[pos + 1] = latestWh
    THEN pos + 1
    ELSE null

\* an EventSource dispatches messages until it is closed
Delivers(es) == es # "closed"

\* the source after an error that nothing handles: the browser reconnects
\* and the source goes on delivering
OnErrorRetry(es) == "retrying"

\* es.onerror = (e) => { es.close(); onError?.(e) }, no onError being given
OnError(es) == "closed"

\* the power stream reports an error
ChannelError ==
    /\ Delivers(powerStream)
    /\ powerStream' = OnError(powerStream)
    /\ saveRequest' = <<>>
    /\ seqStep' = IF seqStep = 3 THEN 0 ELSE seqStep
    /\ UNCHANGED <<promptWhHistory, lastPromptWhRef, latestPromptWh,
                   sessionTotalWh, todayTotalWh, kwhUsed, lastPromptEnergyPct,
                   totalEnergyPct, litresWater, scenPos,
                   study, promptMetrics, s1TotalWh, s1Store, settingsStore,
                   messages, currentModel, resetPending, paneVars, modeVars>>

\* one push of the power stream, handled by the streamPower callback
TelemetryPush(s) ==
    LET latestWh  == OrZero(s.latest_prompt_Wh)
        sessionWh == OrZero(s.session_total_Wh)
        todayWh   == OrZero(s.today_total_Wh)
    IN  /\ Delivers(powerStream)
        /\ UNCHANGED powerStream
        /\ promptWhHistory' = NextHistory(promptWhHistory, lastPromptWhRef, latestWh)
        /\ lastPromptWhRef' = NextSeen(lastPromptWhRef, latestWh)
        /\ latestPromptWh' = latestWh
        /\ sessionTotalWh' = sessionWh
        /\ todayTotalWh' = todayWh
        /\ kwhUsed' = <<todayWh, KwhDivisor>>
        /\ lastPromptEnergyPct' = PctOf(latestWh, PromptBaselineWh)
        /\ totalEnergyPct' = PctOf(sessionWh, SessionBaselineWh)
        /\ litresWater' = 0
        /\ scenPos' = ScenarioNext(scenPos, latestWh)
        /\ saveRequest' = <<>>
        /\ seqStep' = IF seqStep = 3 THEN 0 ELSE seqStep
        /\ UNCHANGED <<study, promptMetrics, s1TotalWh, s1Store, settingsStore,
                       messages, currentModel, resetPending, paneVars, modeVars>>

----------------------------------------------------------------------------
\* Study session state machine

\* const running = !!settings.taskStartedAt && !settings.taskEndedAt
IsRunning(st) ==
    /\ st.taskStartedAt # null /\ st.taskStartedAt # 0
    /\ (st.taskEndedAt = null \/ st.taskEndedAt = 0)
Running == IsRunning(study)
Idle == study.taskStartedAt = null /\ study.taskEndedAt = null
Ended == study.taskStartedAt # null /\ study.taskEndedAt # null

\* the suffix of the key `ai4all.study.s1TotalWh.${participantId || "anon"}`
S1Key(participantId) == IF participantId = "" THEN "anon" ELSE participantId
S1Keys == {S1Key(p) : p \in ParticipantIds}

\* String(n) of the readings the model uses
WhToString(wh) ==
    CASE wh = 0 -> "0" [] wh = 6 -> "0.3" [] wh = 10 -> "0.5"
      [] wh = 48 -> "2.4" [] wh = 240 -> "12"
\* raw ? Number(raw) : null
StringToWh(raw) ==
    CASE raw = nullStr -> null [] raw = "" -> null
      [] raw = "0" -> 0 [] raw = "0.3" -> 6 [] raw = "0.5" -> 10
      [] raw = "2.4" -> 48 [] raw = "12" -> 240

IsSpace(c) == c = " "
RECURSIVE TrimLeft(_)
TrimLeft(t) == IF t # <<>> /\ IsSpace(t[1]) THEN TrimLeft(Tail(t)) ELSE t
RECURSIVE TrimRight(_)
TrimRight(t) ==
    IF t # <<>> /\ IsSpace(t[Len(t)]) THEN TrimRight(SubSeq(t, 1, Len(t) - 1)) ELSE t
\* text.trim()
Trim(t) == TrimRight(TrimLeft(t))
\* trimmed.length ? trimmed.split(/\s+/).length : 0
WordCount(trimmed) ==
    IF trimmed = <<>> THEN 0
    ELSE Cardinality({i \in 1..Len(trimmed) :
            /\ ~IsSpace(trimmed[i])
            /\ (i = 1 \/ IsSpace(trimmed[i - 1]))})

Greeting == [role |-> "bot", text |-> <<"Hi! Ask me anything.">>]
Guidance == [role |-> "bot", text |-> <<"I don't know which chat model to use yet.">>]

\* <button onClick={onStartTask} disabled={running}>
CanStart(st) == ~IsRunning(st)
\* the End button never disabled
CanEndAlways(st) == TRUE
\* <button onClick={onEndTask} disabled={!running}>
CanEnd(st) == IsRunning(st)
\* <button onClick={onReset} disabled={running}>
CanReset(st) == ~IsRunning(st)

\* StartedStudy leaving the end timestamp in place
StartedStudyKeepsEnd(st, t) == [st EXCEPT !.taskStartedAt = t]
\* (s) => ({ ...s, taskStartedAt: Date.now(), taskEndedAt: null })
StartedStudy(st, t) == [st EXCEPT !.taskStartedAt = t, !.taskEndedAt = null]
\* (s) => ({ ...s, taskEndedAt: endedAt })
EndedStudy(st, t) == [st EXCEPT !.taskEndedAt = t]
\* ClearedStudy leaving the end timestamp in place
ClearedStudyKeepsEnd(st) == [st EXCEPT !.taskStartedAt = null]
\* (s) => ({ ...s, taskStartedAt: null, taskEndedAt: null })
ClearedStudy(st) == [st EXCEPT !.taskStartedAt = null, !.taskEndedAt = null]
\* setPromptMetrics([])
ClearedMetrics == <<>>

\* a string as JSON text
Quote(str) == "\"" \o str \o "\""

\* a number or null as JSON text
NumberText(n) == IF n = null THEN "null" ELSE ToString(n)

\* JSON.stringify(next) of the settings effect, as tokens
StringifySettings(st) ==
    <<"{", "participantId", ":", Quote(st.participantId), ",",
           "group", ":", Quote(st.group), ",",
           "session", ":", NumberText(st.session), ",",
           "taskStartedAt", ":", NumberText(st.taskStartedAt), ",",
           "taskEndedAt", ":", NumberText(st.taskEndedAt), "}">>

\* JSON.parse accepts the text: an object of comma separated members
IsObjectText(text) ==
    /\ Len(text) >= 2 /\ text[1] = "{" /\ text[Len(text)] = "}"
    /\ LET n == Len(text) - 2
       IN  /\ n = 0 \/ n % 4 = 3
           /\ \A j \in 1..n :
                 CASE j % 4 = 2 -> text[j + 1] = ":"
                   [] j % 4 = 0 -> text[j + 1] = ","
                   [] OTHER -> text[j + 1] \notin {":", ",", "{", "}"}

\* the value text of the last member named key, or "undefined"
MemberText(text, key) ==
    LET at == {j \in 2..(Len(text) - 3) : j % 4 = 2 /\ text[j] = key}
    IN  IF at = {} THEN "undefined"
        ELSE text[(CHOOSE j \in at : \A k \in at : k <= j) + 2]

\* the string a JSON text stands for; nullStr when it is not a string of
\* the model
StringOfText(valueText, domain) ==
    IF \E v \in domain : Quote(v) = valueText
    THEN CHOOSE v \in domain : Quote(v) = valueText
    ELSE nullStr

\* the number a JSON text stands for; null when it is null or no number
NumberOfText(valueText, domain) ==
    IF \E n \in domain : ToString(n) = valueText
    THEN CHOOSE n \in domain : ToString(n) = valueText
    ELSE null

\* the names a chat can be saved under
ChatNames == {"a", "b"}

\* JSON.stringify(chats) as tokens
RECURSIVE ListMembers(_)
ListMembers(chats) ==
    IF chats = <<>> THEN <<>>
    ELSE <<Quote(Head(chats))>>
         \o (IF Len(chats) > 1 THEN <<",">> ELSE <<>>)
         \o ListMembers(Tail(chats))

\* setPinnedChats of the api: the stored text
StringifyList(chats) == <<"[">> \o ListMembers(chats) \o <<"]">>

\* the text is a JSON array of strings: brackets around values separated
\* by commas
IsArrayText(text) ==
    /\ Len(text) >= 2 /\ text[1] = "[" /\ text[Len(text)] = "]"
    /\ LET n == Len(text) - 2
       IN  /\ n = 0 \/ n % 2 = 1
           /\ \A j \in 1..n :
                 IF j % 2 = 0 THEN text[j + 1] = ","
                 ELSE text[j + 1] \notin {",", "[", "]"}

\* the strings between the brackets, in text order
RECURSIVE ParseList(_)
ParseList(tokens) ==
    IF tokens = <<>> THEN <<>>
    ELSE IF Head(tokens) \in {",", "[", "]"} THEN ParseList(Tail(tokens))
    ELSE <<StringOfText(Head(tokens), ChatNames)>> \o ParseList(Tail(tokens))

\* getPinnedChats reading whatever strings the text holds
LoadedPinnedLenient(text) == ParseList(text)

\* getPinnedChats: raw ? JSON.parse(raw) : [] inside try, [] when the
\* parse throws
LoadedPinned(text) ==
    IF text # <<>> /\ IsArrayText(text) THEN ParseList(text) ELSE <<>>

\* togglePinnedChat: unpin a pinned name, put a new one in front
ToggledPinned(pinned, name) ==
    IF \E i \in 1..Len(pinned) : pinned[i] = name
    THEN LET idx == CHOOSE i \in 1..Len(pinned) :
                        pinned[i] = name /\ \A j \in 1..(i - 1) : pinned[j] # name
         IN  SubSeq(pinned, 1, idx - 1) \o SubSeq(pinned, idx + 1, Len(pinned))
    ELSE <<name>> \o pinned

\* a field of the study controls changed: the settings effect of
\* StudyControls calls handleStudyChange and persists the settings
StudyChange(pid, group, session) ==
    LET next == [study EXCEPT !.participantId = pid, !.group = group,
                              !.session = session]
    IN  /\ tab = "chat"
        /\ Cardinality({f \in {"participantId", "group", "session"} :
                            next[f] # study[f]}) = 1
        /\ study' = next
        /\ s1TotalWh' = IF pid # "" /\ pid # study.participantId
                        THEN StringToWh(s1Store[pid])
                        ELSE s1TotalWh
        /\ saveRequest' = <<>>
        /\ seqStep' = IF seqStep = 3 THEN 0 ELSE seqStep
        /\ settingsStore' = StringifySettings(next)
        /\ UNCHANGED <<energyVars, promptMetrics, s1Store, messages,
                       currentModel, resetPending, scenPos, paneVars, modeVars>>

\* the Start button (disabled while running) and handleStartTask
StartTask(t) ==
    /\ tab = "chat"
    /\ CanStart(study)
    /\ study' = StartedStudy(study, t)
    /\ promptMetrics' = ClearedMetrics
    /\ saveRequest' = <<>>
    /\ seqStep' = 1
    /\ UNCHANGED <<energyVars, s1TotalWh, s1Store, settingsStore, messages,
                   currentModel, resetPending, scenPos, paneVars, modeVars>>

\* id.trim() for the participant ids of the model and their padded forms
TrimId(id) ==
    CASE id = " " -> ""
      [] id = " P1" -> "P1"
      [] id = "P1 " -> "P1"
      [] id = " anon " -> "anon"
      [] OTHER -> id

\* BundleName without the anonymous label
BundleNameNoFallback(st) == <<TrimId(st.participantId), "_s", st.session>>

\* `${(study.participantId || "anon").trim()}_s${study.session}`
BundleName(st) == <<TrimId(S1Key(st.participantId)), "_s", st.session>>

\* the argument of saveStudySession in handleEndTask
Bundle(endedAt) ==
    [name    |-> BundleName(study),
     history |-> messages,
     metrics |-> promptMetrics,
     session |-> [participantId |-> study.participantId,
                  group         |-> study.group,
                  session       |-> study.session,
                  taskStartedAt |-> study.taskStartedAt,
                  taskEndedAt   |-> endedAt,
                  energy |-> [latestPromptWh  |-> latestPromptWh,
                              sessionTotalWh  |-> sessionTotalWh,
                              todayTotalWh    |-> todayTotalWh,
                              session1TotalWh |-> s1TotalWh]]]

\* the End button (enabled only while running) and handleEndTask
EndTask(t) ==
    /\ tab = "chat"
    /\ CanEnd(study)
    /\ study' = EndedStudy(study, t)
    /\ IF study.session = 1 /\ sessionTotalWh # null
       THEN /\ s1Store' = [s1Store EXCEPT ![S1Key(study.participantId)] =
                                              WhToString(sessionTotalWh)]
            /\ s1TotalWh' = sessionTotalWh
       ELSE UNCHANGED <<s1Store, s1TotalWh>>
    /\ saveRequest' = <<Bundle(t)>>
    /\ seqStep' = IF seqStep = 1 THEN 2 ELSE 0
    /\ UNCHANGED <<energyVars, promptMetrics, messages, settingsStore,
                   currentModel, resetPending, scenPos, paneVars, modeVars>>

\* the study settings after a save that rolls a failed end back
AfterSaveRollback(st, outcome) ==
    IF outcome = "ok" THEN st ELSE [st EXCEPT !.taskEndedAt = null]

\* the study settings after the await of saveStudySession: handleEndTask
\* ends there, it reads neither the answer nor catches a rejection
AfterSave(st, outcome) == st

\* what saveStudySession can come to: { ok: true }, { ok: false } for a
\* non-OK response, or a rejection when fetch fails
SaveOutcomes == {"ok", "not ok", "rejects"}

\* the save request handed over by handleEndTask settles
SaveSettles(outcome) ==
    /\ saveRequest # <<>>
    /\ saveRequest' = <<>>
    /\ study' = AfterSave(study, outcome)
    /\ seqStep' = IF seqStep = 3 THEN 0 ELSE seqStep
    /\ UNCHANGED <<energyVars, promptMetrics, s1TotalWh, s1Store, settingsStore, messages,
                   currentModel, resetPending, scenPos, paneVars, modeVars>>

\* the first message of VibeCodingPane and of WebChatPane
SideGreeting(t) ==
    [role |-> "bot",
     text |-> IF t = "vibe" THEN <<"Welcome to Vibe Coding.">>
              ELSE <<"This mode can use web tools.">>]

\* the state a pane of tab t is mounted with: its messages, its isLoading
\* flag and the text of its ChatInput (no such pane on the other tabs)
SidePaneAt(t) ==
    [messages  |-> IF t \in SideTabs THEN <<SideGreeting(t)>> ELSE <<>>,
     isLoading |-> FALSE,
     text      |-> <<>>]

\* the pane of the given kind is unmounted: the handler runs waiting on its
\* streams go on, but their state updates no longer reach a component
Unmounted(q, kind) ==
    [i \in 1..Len(q) |->
        IF q[i].kind = kind THEN [q[i] EXCEPT !.live = FALSE] ELSE q[i]]

\* steps 2 to 5 of handleResetAll: the local reset.  The remount of ChatPane
\* (setChatKey) puts its transcript back to the greeting, which its history
\* effect mirrors into App.
LocalReset ==
    /\ study' = ClearedStudy(study)
    /\ promptMetrics' = ClearedMetrics
    /\ messages' = <<Greeting>>
    /\ latestPromptWh' = null
    /\ sessionTotalWh' = null
    /\ todayTotalWh' = null
    /\ promptWhHistory' = <<>>
    /\ lastPromptWhRef' = null
    /\ kwhUsed' = <<0, 1>>
    /\ lastPromptEnergyPct' = 0
    /\ totalEnergyPct' = 0
    /\ litresWater' = 0
    /\ scenPos' = 0
    /\ seqStep' = IF seqStep = 2 THEN 3 ELSE 0
    /\ streams' = Unmounted(streams, "chat")
    /\ isStreaming' = FALSE
    /\ thinkingMode' = "fast"
    /\ pinnedChats' = IF tab = "chat" THEN LoadedPinned(pinnedStore) ELSE pinnedChats
    /\ UNCHANGED <<tab, turns, imageStreaming, sidePane, pinnedStore, powerStream>>

\* if (currentModel) { await resetChatSession(currentModel) }
AwaitsBackend(model) == model # nullStr /\ model # ""

\* the Reset button (disabled while running) and handleResetAll up to its
\* first suspension: with a model known the request is sent and the handler
\* waits for the answer; with none it runs straight through the local reset
ResetAllClick ==
    /\ tab = "chat"
    /\ CanReset(study)
    /\ saveRequest' = <<>>
    /\ IF AwaitsBackend(currentModel)
       THEN /\ resetPending < MaxPending
            /\ resetPending' = resetPending + 1
            /\ seqStep' = IF seqStep = 3 THEN 0 ELSE seqStep
            /\ UNCHANGED <<energyVars, study, promptMetrics, messages, scenPos,
                           paneVars>>
       ELSE /\ LocalReset
            /\ UNCHANGED resetPending
    /\ UNCHANGED <<s1TotalWh, s1Store, settingsStore, currentModel, modeVars>>

\* handleResetAll after its await: the request was answered (ok) or threw
\* (failed, caught and logged); either way the local reset runs
ResetAllResume(outcome) ==
    /\ resetPending > 0
    /\ outcome \in {"ok", "failed"}
    /\ resetPending' = resetPending - 1
    /\ LocalReset
    /\ saveRequest' = <<>>
    /\ UNCHANGED <<s1TotalWh, s1Store, settingsStore, currentModel, modeVars>>

----------------------------------------------------------------------------
\* Prompt submission

\* { ts: Date.now(), text, words, chars }
PromptMetric(text, t) ==
    [ts |-> t, text |-> text, words |-> WordCount(Trim(text)), chars |-> Len(text)]

\* doSend of ChatInput (which hands the trimmed text over, and nothing when
\* it is blank) and handleSend of ChatPane up to setIsStreaming(true), with
\* the App callbacks onUserPrompt and onModelChange it calls
handleSend(typed, activeModel, t) ==
    LET text == Trim(typed)
    IN  /\ tab = "chat"
        /\ saveRequest' = <<>>
        /\ seqStep' = IF seqStep = 3 THEN 0 ELSE seqStep
        /\ UNCHANGED <<energyVars, study, s1TotalWh, s1Store, settingsStore,
                       resetPending, scenPos, modeVars>>
        /\ IF Trim(text) = <<>>
           THEN UNCHANGED <<promptMetrics, messages, currentModel>>
           ELSE /\ Len(messages) < MaxMsgs
                /\ IF activeModel = nullStr
                   THEN /\ messages' = Append(messages, Guidance)
                        /\ UNCHANGED <<promptMetrics, currentModel>>
                   ELSE /\ promptMetrics' = Append(promptMetrics, PromptMetric(text, t))
                        /\ currentModel' = activeModel
                        /\ messages' = Append(messages, [role |-> "user", text |-> text])

\* a prompt is submitted; the response stream it opens is not followed
Prompt(typed, activeModel) ==
    /\ \E t \in Times : handleSend(typed, activeModel, t)
    /\ UNCHANGED paneVars

----------------------------------------------------------------------------
\* Mode resolution registry

ModeKeys == {"chat", "vibe_coding", "image", "web"}

\* what getModeDefaults may answer: a default model for every mode (the
\* web mode may come without one), with and without the fast / thinking
\* presets of the chat mode
DefaultsInputs ==
    {[mode \in ModeKeys |->
        [default  |-> IF mode = "web" THEN w ELSE "d-" \o mode,
         fast     |-> IF mode = "chat" THEN f ELSE nullStr,
         thinking |-> IF mode = "chat" THEN f ELSE nullStr]] :
     f \in {nullStr, "preset"}, w \in {nullStr, "d-web"}}

\* a string that is neither null / undefined nor empty
Truthy(x) == x # nullStr /\ x # ""

\* a || b
Or(a, b) == IF Truthy(a) THEN a ELSE b

\* modeDefaults?.[mode]?.default
DefaultOf(mode) == IF modeDefaults = <<>> THEN nullStr ELSE modeDefaults[1][mode].default

\* EffectiveModel looking at the backend default first
EffectiveModelDefaultFirst(mode) == Or(DefaultOf(mode), modeOverrides[mode])

\* modeOverrides.<mode> || modeDefaults?.<mode>?.default: vibeModel,
\* webModel, imageModel and chatModeModel
EffectiveModel(mode) == Or(modeOverrides[mode], DefaultOf(mode))

\* ActiveModel taking the fast preset first, whatever the thinking mode
ActiveModelFastFirst(mode, fast, deep, model) == Or(fast, Or(deep, model))

\* thinkingMode === "deep" ? (deepModel || model) : (fastModel || model)
ActiveModel(mode, fast, deep, model) ==
    IF mode = "deep" THEN Or(deep, model) ELSE Or(fast, model)

\* chatActiveModel falling back on a built-in model
chatActiveModelWithFallback ==
    Or(ActiveModel(thinkingMode, Or(fastModel, nullStr), Or(deepModel, nullStr),
                   Or(EffectiveModel("chat"), nullStr)), "m1")

\* activeModel of the mounted ChatPane, with the props App hands down
chatActiveModel ==
    ActiveModel(thinkingMode, Or(fastModel, nullStr), Or(deepModel, nullStr),
                Or(EffectiveModel("chat"), nullStr))

\* the updater of onModeOverrideChange: delete next[mode] when the model
\* is null or empty, else next[mode] = model
NextOverrides(prev, mode, model) ==
    IF ~Truthy(model)
    THEN [prev EXCEPT ![mode] = nullStr]
    ELSE [prev EXCEPT ![mode] = model]

\* the own keys of next, in insertion order: delete drops the key, an
\* assignment to a key the object owns keeps its place, a new key goes last
NextKeys(keys, mode, model) ==
    IF ~Truthy(model)
    THEN SelectSeq(keys, LAMBDA k : k # mode)
    ELSE IF \E i \in 1..Len(keys) : keys[i] = mode THEN keys
         ELSE Append(keys, mode)

\* the JSON text of one member, as tokens
Member(key, value) == <<key, ":", value>>

RECURSIVE Members(_, _)
Members(keys, map) ==
    IF keys = <<>> THEN <<>>
    ELSE Member(keys[1], map[keys[1]])
         \o (IF Len(keys) > 1 THEN <<",">> ELSE <<>>)
         \o Members(Tail(keys), map)

\* Stringify writing the keys only
StringifyKeysOnly(keys, map) == <<"{">> \o keys \o <<"}">>

\* JSON.stringify(modeOverrides): the own keys in insertion order
Stringify(keys, map) == <<"{">> \o Members(keys, map) \o <<"}">>

\* the members of a JSON object text, as <<key, value>> pairs in text order
RECURSIVE ParseMembers(_)
ParseMembers(tokens) ==
    IF Len(tokens) < 3 THEN <<>>
    ELSE IF tokens[1] = "," THEN ParseMembers(Tail(tokens))
    ELSE IF tokens[2] = ":"
         THEN <<<<tokens[1], tokens[3]>>>> \o ParseMembers(SubSeq(tokens, 4, Len(tokens)))
         ELSE <<>>

\* the text between the braces
Body(text) == SubSeq(text, 2, Len(text) - 1)

\* raw ? JSON.parse(raw) : {} as a mapping: the last member of a key wins
ParsedMap(text) ==
    LET members == ParseMembers(Body(text))
        at(key) == {i \in 1..Len(members) : members[i][1] = key}
    IN  [key \in ModeKeys |->
            IF at(key) = {} THEN nullStr
            ELSE members[CHOOSE i \in at(key) : \A j \in at(key) : j <= i][2]]

\* the own keys of the parsed object, in the order of their first member
ParsedKeys(text) ==
    LET members == ParseMembers(Body(text))
        first(i) == \A j \in 1..(i - 1) : members[j][1] # members[i][1]
        RECURSIVE from(_)
        from(i) == IF i > Len(members) THEN <<>>
                   ELSE (IF first(i) THEN <<members[i][1]>> ELSE <<>>) \o from(i + 1)
    IN  from(1)

\* the initialiser of modeOverrides: raw ? JSON.parse(raw) : {} inside try,
\* {} when the parse throws
LoadedOverrides(text) ==
    IF text # <<>> /\ IsObjectText(text) THEN ParsedMap(text)
    ELSE [mode \in ModeKeys |-> nullStr]

\* the own keys of the loaded object
LoadedKeys(text) ==
    IF text # <<>> /\ IsObjectText(text) THEN ParsedKeys(text) ELSE <<>>

RegistryFrame ==
    /\ saveRequest' = <<>>
    /\ seqStep' = IF seqStep = 3 THEN 0 ELSE seqStep
    /\ UNCHANGED <<energyVars, study, promptMetrics, s1TotalWh, s1Store, settingsStore,
                   messages, currentModel, resetPending, scenPos, paneVars>>

\* the "Fast think" select of the Models tab: e.target.value || null
SetFastModel(value) ==
    /\ tab = "models"
    /\ fastModel' = Or(value, nullStr)
    /\ RegistryFrame
    /\ UNCHANGED <<deepModel, modeDefaults, overrideVars, defaultsPending>>

\* the "Deep think" select of the Models tab
SetDeepModel(value) ==
    /\ tab = "models"
    /\ deepModel' = Or(value, nullStr)
    /\ RegistryFrame
    /\ UNCHANGED <<fastModel, modeDefaults, overrideVars, defaultsPending>>

\* the "Active model" select of a mode row of the Models tab (the row is
\* rendered once the defaults are loaded) and onModeOverrideChange
ModeOverrideChange(mode, value) ==
    /\ tab = "models"
    /\ modeDefaults # <<>> /\ Truthy(DefaultOf(mode))
    /\ modeOverrides' = NextOverrides(modeOverrides, mode, Or(value, nullStr))
    /\ overrideKeys' = NextKeys(overrideKeys, mode, Or(value, nullStr))
    /\ overridesStore' = Stringify(overrideKeys', modeOverrides')
    /\ RegistryFrame
    /\ UNCHANGED <<fastModel, deepModel, modeDefaults, defaultsPending>>

\* getModeDefaults answers: the defaults are stored and the chat presets
\* that were not set when the effect ran (at mount) are seeded
DefaultsLoaded(defaults) ==
    /\ defaultsPending # <<>>
    /\ LET seen == defaultsPending[1]
           chatDefaults == defaults["chat"]
       IN  /\ modeDefaults' = <<defaults>>
           /\ fastModel' = IF ~Truthy(seen.fastModel) /\ Truthy(chatDefaults.fast)
                            THEN chatDefaults.fast ELSE fastModel
           /\ deepModel' = IF ~Truthy(seen.deepModel) /\ Truthy(chatDefaults.thinking)
                            THEN chatDefaults.thinking ELSE deepModel
    /\ defaultsPending' = <<>>
    /\ RegistryFrame
    /\ UNCHANGED overrideVars

\* getModeDefaults fails: the error is logged
DefaultsFailed ==
    /\ defaultsPending # <<>>
    /\ defaultsPending' = <<>>
    /\ RegistryFrame
    /\ UNCHANGED <<fastModel, deepModel, modeDefaults, overrideVars>>

\* the Fast / Deep buttons of the chat pane
SetThinkingMode(mode) ==
    /\ tab = "chat"
    /\ thinkingMode' = mode
    /\ saveRequest' = <<>>
    /\ seqStep' = IF seqStep = 3 THEN 0 ELSE seqStep
    /\ UNCHANGED <<energyVars, study, promptMetrics, s1TotalWh, s1Store, settingsStore,
                   messages, currentModel, resetPending, scenPos, modeVars,
                   tab, isStreaming, turns, imageStreaming, streams, sidePane, pinVars>>

----------------------------------------------------------------------------
\* The system

InitialStudy ==
    [participantId |-> "", group |-> "control", session |-> 1,
     taskStartedAt |-> null, taskEndedAt |-> null]

Init ==
    /\ promptWhHistory = <<>>
    /\ lastPromptWhRef = null
    /\ latestPromptWh = null
    /\ sessionTotalWh = null
    /\ todayTotalWh = null
    /\ kwhUsed = <<0, 1>>
    /\ lastPromptEnergyPct = 0
    /\ totalEnergyPct = 0
    /\ litresWater = 0
    /\ study = InitialStudy
    /\ settingsStore = StringifySettings(InitialStudy)
    /\ promptMetrics = <<>>
    /\ s1TotalWh = null
    /\ s1Store = [k \in S1Keys |-> nullStr]
    /\ messages = <<Greeting>>
    /\ currentModel = nullStr
    /\ resetPending = 0
    /\ saveRequest = <<>>
    /\ tab = "chat"
    /\ isStreaming = FALSE
    /\ turns = <<>>
    /\ imageStreaming = FALSE
    /\ sidePane = SidePaneAt("chat")
    /\ pinnedStore = <<>>
    /\ pinnedChats = LoadedPinned(pinnedStore)
    /\ powerStream = "open"
    /\ streams = <<>>
    /\ thinkingMode = "fast"
    /\ fastModel = nullStr
    /\ deepModel = nullStr
    /\ modeDefaults = <<>>
    /\ modeOverrides = [mode \in ModeKeys |-> nullStr]
    /\ overrideKeys = <<>>
    /\ overridesStore = Stringify(<<>>, modeOverrides)
    /\ defaultsPending = <<[fastModel |-> nullStr, deepModel |-> nullStr]>>
    /\ scenPos = 0
    /\ seqStep = 0

\* loadPersistedStudySettings() || {} and the fallbacks of the study
\* initialiser: participantId || "", group || "control", session || 1.
\* The settings effect of StudyControls wrote the text on mount and on
\* every change of the participant, the group or the session.
LoadedSettings(text) ==
    LET ok == text # <<>> /\ IsObjectText(text)
        pid == IF ok THEN StringOfText(MemberText(text, "participantId"), ParticipantIds)
               ELSE nullStr
        grp == IF ok THEN StringOfText(MemberText(text, "group"), Groups) ELSE nullStr
        ses == IF ok THEN NumberOfText(MemberText(text, "session"), Sessions) ELSE null
    IN  [participantId |-> IF pid = nullStr THEN "" ELSE pid,
         group         |-> IF grp = nullStr \/ grp = "" THEN "control" ELSE grp,
         session       |-> IF ses = null \/ ses = 0 THEN 1 ELSE ses]

PersistedSettings == LoadedSettings(settingsStore)

\* the page is reloaded: App is constructed again from localStorage; only
\* the stored settings, the stored session-1 snapshots, the stored presets
\* and the stored overrides (each written by its effect after every change)
\* survive; a handleResetAll run that was waiting for the backend is gone,
\* and the mount effect asks for the mode defaults again
Restart ==
    LET persisted == PersistedSettings
    IN  /\ study' = [participantId |-> persisted.participantId,
                     group         |-> persisted.group,
                     session       |-> persisted.session,
                     taskStartedAt |-> null,
                     taskEndedAt   |-> null]
        /\ promptMetrics' = <<>>
        /\ s1TotalWh' = StringToWh(s1Store[S1Key(persisted.participantId)])
        /\ messages' = <<Greeting>>
        /\ promptWhHistory' = <<>>
        /\ lastPromptWhRef' = null
        /\ latestPromptWh' = null
        /\ sessionTotalWh' = null
        /\ todayTotalWh' = null
        /\ kwhUsed' = <<0, 1>>
        /\ lastPromptEnergyPct' = 0
        /\ totalEnergyPct' = 0
        /\ litresWater' = 0
        /\ currentModel' = nullStr
        /\ resetPending' = 0
        /\ saveRequest' = <<>>
        /\ scenPos' = 0
        /\ seqStep' = 0
        /\ tab' = "chat"
        /\ isStreaming' = FALSE
        /\ turns' = <<>>
        /\ imageStreaming' = FALSE
        /\ sidePane' = SidePaneAt("chat")
        /\ pinnedChats' = LoadedPinned(pinnedStore)
        /\ powerStream' = "open"
        /\ streams' = <<>>
        /\ thinkingMode' = "fast"
        /\ modeDefaults' = <<>>
        /\ defaultsPending' = <<[fastModel |-> fastModel, deepModel |-> deepModel]>>
        /\ modeOverrides' = LoadedOverrides(overridesStore)
        /\ overrideKeys' = LoadedKeys(overridesStore)
        /\ overridesStore' = Stringify(overrideKeys', modeOverrides')
        /\ settingsStore' = StringifySettings(study')
        /\ UNCHANGED <<s1Store, pinnedStore, fastModel, deepModel>>

Next ==
    \/ \E s \in StudyPushSummaries : TelemetryPush(s)
    \/ \E pid \in ParticipantIds, g \in Groups, n \in Sessions : StudyChange(pid, g, n)
    \/ \E t \in Times : StartTask(t)
    \/ \E t \in Times : EndTask(t)
    \/ ResetAllClick
    \/ \E outcome \in {"ok", "failed"} : ResetAllResume(outcome)
    \/ \E text \in PromptTexts, m \in Models \cup {nullStr} : Prompt(text, m)
    \/ Restart

Spec == Init /\ [][Next]_vars

\* The energy telemetry monitor with every push input.  The energy state is
\* written by the pushes and by the local reset only; with the study machine
\* left idle the Reset button is always enabled, so every order of pushes
\* and resets the whole system can produce is a behaviour of this one.
NextEnergy ==
    \/ \E s \in PushSummaries : TelemetryPush(s)
    \/ ResetAllClick
    \/ \E outcome \in {"ok", "failed"} : ResetAllResume(outcome)
    \/ \E text \in PromptTexts, m \in Models \cup {nullStr} : Prompt(text, m)

SpecEnergy == Init /\ [][NextEnergy]_vars

----------------------------------------------------------------------------
\* Response streams of the chat pane

\* a run of handleSend / handleAnalyze from the opening of its stream on:
\* acc is its local accumulator (the deltas passed on so far, in order),
\* live tells whether the component that started it is still mounted,
\* errored whether an error frame of the stream was read, body is the
\* response body where the reads of the transport are followed (as tokens)
\* and pos the number of its tokens read so far, prompt is the
\* currentPrompt of handleAnalyze
NewStream(kind, prompt) ==
    [kind |-> kind, acc |-> <<>>, live |-> TRUE, errored |-> FALSE, prompt |-> prompt,
     body |-> <<>>, pos |-> 0]

Remove(q, i) == SubSeq(q, 1, i - 1) \o SubSeq(q, i + 1, Len(q))

\* m[m.length - 1]?.role === "bot" ? m.slice(0, -1) : m
WithoutBotTail(m) ==
    IF m # <<>> /\ m[Len(m)].role = "bot" THEN SubSeq(m, 1, Len(m) - 1) ELSE m

\* WithBotTail without the removal of the previous partial text
WithBotAppended(m, acc) == Append(m, [role |-> "bot", text |-> acc])

\* [...withoutBotTail, { role: "bot", text: acc }]
WithBotTail(m, acc) == Append(WithoutBotTail(m), [role |-> "bot", text |-> acc])

Apology ==
    [role |-> "bot",
     text |-> <<"Sorry, something went wrong while generating a response.">>]

\* WithApology putting the apology in the place of the partial text
ApologyInPlace(m) == Append(WithoutBotTail(m), Apology)

\* [...m, { role: "bot", text: "Sorry, ..." }]
WithApology(m) == Append(m, Apology)

\* what a step of a stream leaves alone in App
AppUntouched ==
    /\ saveRequest' = <<>>
    /\ seqStep' = IF seqStep = 3 THEN 0 ELSE seqStep
    /\ UNCHANGED <<energyVars, study, promptMetrics, s1TotalWh, s1Store, settingsStore,
                   currentModel, resetPending, scenPos, modeVars>>

IsStream(i, kind) == i \in 1..Len(streams) /\ streams[i].kind = kind

\* a prompt is submitted in the chat pane: handleSend up to its await of
\* streamChat
Send(typed, activeModel, t) ==
    /\ handleSend(typed, activeModel, t)
    /\ IF Trim(typed) # <<>> /\ activeModel # nullStr
       THEN /\ Len(streams) < MaxStreams
            /\ Len(promptMetrics) < MaxMsgs
            /\ streams' = Append(streams, NewStream("chat", <<>>))
            /\ isStreaming' = TRUE
       ELSE UNCHANGED <<streams, isStreaming>>
    /\ UNCHANGED <<tab, turns, imageStreaming, thinkingMode, sidePane, pinVars>>

\* streamChat reads the next delta frame of stream i and calls onDelta
ChatDelta(i) ==
    /\ IsStream(i, "chat")
    /\ Len(streams[i].acc) < MaxDeltas
    /\ LET delta == DeltaOf(Len(streams[i].acc) + 1)
           acc   == Append(streams[i].acc, delta)
       IN  /\ streams' = [streams EXCEPT ![i].acc = acc]
           /\ messages' = IF streams[i].live
                           THEN WithBotTail(messages, acc)
                           ELSE messages
    /\ AppUntouched
    /\ UNCHANGED <<tab, isStreaming, turns, imageStreaming, thinkingMode, sidePane, pinVars>>

\* streamChat reads an error frame of stream i and throws, or the read of
\* the body fails: the promise rejects, handleSend runs its catch and its
\* finally
ChatFail(i, cause) ==
    /\ IsStream(i, "chat")
    /\ cause \in {"error frame", "transport"}
    /\ messages' = IF streams[i].live THEN WithApology(messages) ELSE messages
    /\ isStreaming' = IF streams[i].live THEN FALSE ELSE isStreaming
    /\ streams' = Remove(streams, i)
    /\ AppUntouched
    /\ UNCHANGED <<tab, turns, imageStreaming, thinkingMode, sidePane, pinVars>>

\* the body of stream i ends: the promise resolves, handleSend runs its
\* finally
ChatDone(i) ==
    /\ IsStream(i, "chat")
    /\ isStreaming' = IF streams[i].live THEN FALSE ELSE isStreaming
    /\ streams' = Remove(streams, i)
    /\ AppUntouched
    /\ UNCHANGED <<messages, tab, turns, imageStreaming, thinkingMode, sidePane, pinVars>>

\* what a terminal frame carries: inference_time_ms, and energy_wh in
\* units of 0.05 Wh (absent energy is read as 0)
InferenceResults ==
    {[inference_time_ms |-> ms, energy_wh |-> wh] : ms \in {120, 900}, wh \in {0, 6}}

\* streamChat reads the terminal frame of stream i (done with a time): it
\* keeps the metrics, calls onComplete, which handleSend does not pass, and
\* resolves with the metrics when the body ends; handleSend awaits the
\* promise without reading its value
ChatComplete(i, metrics) ==
    /\ metrics \in InferenceResults
    /\ ChatDone(i)

\* the Inference Results a message of the transcript carries
Attached(msg) == IF "metrics" \in DOMAIN msg THEN <<msg.metrics>> ELSE <<>>

\* the most tokens one read of the transport returns
MaxRead == 9

\* `data: ${JSON.stringify({ delta })}\n\n` as tokens
DeltaFrame(delta) == <<"data:", "{", "delta", ":", delta, "}", "\n", "\n">>

\* the terminal frame
TerminalFrame == <<"data:", "{", "done", ":", "true", "}", "\n", "\n">>

\* the response bodies followed read by read: one and two delta frames and
\* the terminal frame
Bodies ==
    {DeltaFrame("x") \o TerminalFrame,
     DeltaFrame("x") \o DeltaFrame("y") \o TerminalFrame}

\* the deltas of the delta frames of a body, in order
RECURSIVE DeltasOf(_)
DeltasOf(body) ==
    IF Len(body) < 8 THEN <<>>
    ELSE (IF body[3] = "delta" THEN <<body[5]>> ELSE <<>>)
         \o DeltasOf(SubSeq(body, 9, Len(body)))

\* chunk.split("\n\n"): the pieces between the blank-line delimiters
RECURSIVE SplitLines(_, _)
SplitLines(chunk, piece) ==
    IF chunk = <<>> THEN <<piece>>
    ELSE IF Len(chunk) >= 2 /\ chunk[1] = "\n" /\ chunk[2] = "\n"
    THEN <<piece>> \o SplitLines(SubSeq(chunk, 3, Len(chunk)), <<>>)
    ELSE SplitLines(Tail(chunk), Append(piece, Head(chunk)))

\* String.prototype.trim on tokens: line ends at both ends go
RECURSIVE TrimLines(_)
TrimLines(t) ==
    IF t = <<>> THEN t
    ELSE IF Head(t) = "\n" THEN TrimLines(Tail(t))
    ELSE IF t[Len(t)] = "\n" THEN TrimLines(SubSeq(t, 1, Len(t) - 1))
    ELSE t

\* JSON.parse(line.slice(5).trim()) accepts the text
ParsesPayload(line) ==
    LET t == TrimLines(Tail(line))
    IN  Len(t) = 5 /\ t[1] = "{" /\ t[3] = ":" /\ t[5] = "}"
        /\ t[2] \notin {"{", "}", ":"} /\ t[4] \notin {"{", "}", ":"}

\* payload.delta of a line that parses, or <<>>
PayloadDelta(line) ==
    LET t == TrimLines(Tail(line))
    IN  IF t[2] = "delta" /\ t[4] # "" THEN <<t[4]>> ELSE <<>>

\* the for loop of streamChat over the lines of one chunk: the accumulator
\* after the onDelta calls made, and whether JSON.parse threw (the loop
\* ends there)
RECURSIVE ReadLines(_, _)
ReadLines(lines, acc) ==
    IF lines = <<>> THEN [acc |-> acc, threw |-> FALSE]
    ELSE LET line == Head(lines)
         IN  IF line = <<>> \/ line[1] # "data:" THEN ReadLines(Tail(lines), acc)
             ELSE IF ~ParsesPayload(line) THEN [acc |-> acc, threw |-> TRUE]
             ELSE ReadLines(Tail(lines), acc \o PayloadDelta(line))

\* one turn of the while loop of streamChat on a read of k tokens
ReadChunk(body, pos, k, acc) ==
    ReadLines(SplitLines(SubSeq(body, pos + 1, pos + k), <<>>), acc)

\* a prompt is submitted and the response body the backend will send is
\* fixed: Send, with the reads of the transport followed one by one
SendFramed(typed, activeModel, t, body) ==
    /\ handleSend(typed, activeModel, t)
    /\ Trim(typed) # <<>> /\ activeModel # nullStr
    /\ Len(streams) < MaxStreams
    /\ Len(promptMetrics) < MaxMsgs
    /\ streams' = Append(streams, [NewStream("chat", <<>>) EXCEPT !.body = body])
    /\ isStreaming' = TRUE
    /\ UNCHANGED <<tab, turns, imageStreaming, thinkingMode, sidePane, pinVars>>

\* reader.read() of stream i returns the next k tokens of the body: the
\* lines of the chunk are handled, each delta through onDelta; when
\* JSON.parse throws the promise rejects and handleSend runs its catch and
\* its finally
ChatRead(i, k) ==
    /\ IsStream(i, "chat")
    /\ k \in 1..(Len(streams[i].body) - streams[i].pos)
    /\ LET r == ReadChunk(streams[i].body, streams[i].pos, k, streams[i].acc)
           shown == IF streams[i].live /\ r.acc # streams[i].acc
                    THEN WithBotTail(messages, r.acc) ELSE messages
       IN  IF r.threw
           THEN /\ messages' = IF streams[i].live THEN WithApology(shown) ELSE messages
                /\ isStreaming' = IF streams[i].live THEN FALSE ELSE isStreaming
                /\ streams' = Remove(streams, i)
           ELSE /\ messages' = shown
                /\ streams' = [streams EXCEPT ![i].acc = r.acc, ![i].pos = @ + k]
                /\ UNCHANGED isStreaming
    /\ AppUntouched
    /\ UNCHANGED <<tab, turns, imageStreaming, thinkingMode, sidePane, pinVars>>

\* reader.read() of stream i returns done after the whole body was read
ChatEnd(i) ==
    /\ IsStream(i, "chat")
    /\ streams[i].body # <<>> /\ streams[i].pos = Len(streams[i].body)
    /\ ChatDone(i)

\* handleClearChat, mirrored into App by the history effect
ClearChat ==
    /\ tab = "chat"
    /\ messages' = <<Greeting>>
    /\ AppUntouched
    /\ UNCHANGED paneVars

\* setTab(t): the pane of the old tab is unmounted, the pane of the new one
\* is mounted in its initial state; a new ChatPane mirrors its transcript
\* into App
TabSwitch(t) ==
    /\ t \in AllTabs /\ t # tab
    /\ tab' = t
    /\ sidePane' = SidePaneAt(t)
    /\ pinnedChats' = IF t = "chat" THEN LoadedPinned(pinnedStore) ELSE <<>>
    /\ UNCHANGED pinnedStore
    /\ streams' = Unmounted(streams, tab)
    /\ isStreaming' = FALSE
    /\ turns' = <<>>
    /\ imageStreaming' = FALSE
    /\ thinkingMode' = "fast"
    /\ messages' = IF t = "chat" THEN <<Greeting>> ELSE messages
    /\ AppUntouched

\* the push that arrives while the response streams are followed
StreamPushSummaries ==
    {[latest_prompt_Wh |-> 10, session_total_Wh |-> 48, today_total_Wh |-> 240]}

NextStream ==
    \/ \E typed \in PromptTexts, m \in Models \cup {nullStr}, t \in StreamTimes :
            Send(typed, m, t)
    \/ \E i \in 1..Len(streams) : ChatDelta(i)
    \/ \E i \in 1..Len(streams), cause \in {"error frame", "transport"} : ChatFail(i, cause)
    \/ \E i \in 1..Len(streams) : ChatDone(i)
    \/ ClearChat
    \/ \E t \in Tabs : TabSwitch(t)
    \/ ResetAllClick
    \/ \E outcome \in {"ok", "failed"} : ResetAllResume(outcome)
    \/ Restart

\* The chat pane with its response streams, through tab switches, resets
\* and reloads; the study machine stays idle and no telemetry arrives.
SpecStream == Init /\ [][NextStream]_vars

\* the pushes that arrive while a response streams: one with every field
\* absent, one without a latest-prompt reading, one with every field present
InFlightPushSummaries ==
    {[latest_prompt_Wh |-> null, session_total_Wh |-> null, today_total_Wh |-> null],
     [latest_prompt_Wh |-> null, session_total_Wh |-> 48, today_total_Wh |-> 240],
     [latest_prompt_Wh |-> 10, session_total_Wh |-> 48, today_total_Wh |-> 240]}

NextStreamEnergy ==
    \/ \E s \in InFlightPushSummaries : TelemetryPush(s)
    \/ \E typed \in PromptTexts, m \in Models \cup {nullStr}, t \in StreamTimes :
            Send(typed, m, t)
    \/ \E i \in 1..Len(streams) : ChatDelta(i)
    \/ \E i \in 1..Len(streams), cause \in {"error frame", "transport"} : ChatFail(i, cause)
    \/ \E i \in 1..Len(streams) : ChatDone(i)
    \/ ClearChat

\* The energy telemetry monitor while the chat pane streams responses.
SpecStreamEnergy == Init /\ [][NextStreamEnergy]_vars

\* every kind of number a push can carry in a field: absent, negative,
\* zero, below the baseline and above it (1.5 Wh against 1 Wh, 12 Wh
\* against 10 Wh)
SignedLatestWhInputs == {null, 0 - 6, 0, 10, 30}
SignedTotalsInputs == {<<null, null>>, <<0 - 20, 0 - 20>>, <<48, 240>>, <<240, 240>>}
SignedPushSummaries ==
    {[latest_prompt_Wh |-> l, session_total_Wh |-> t[1], today_total_Wh |-> t[2]] :
        l \in SignedLatestWhInputs, t \in SignedTotalsInputs}

NextPct ==
    \/ \E s \in SignedPushSummaries : TelemetryPush(s)
    \/ ResetAllClick
    \/ \E outcome \in {"ok", "failed"} : ResetAllResume(outcome)
    \/ \E text \in PromptTexts, m \in Models \cup {nullStr} : Prompt(text, m)

\* The energy telemetry monitor under pushes of any sign and size.
SpecPct == Init /\ [][NextPct]_vars

NextChannel ==
    \/ \E s \in PushSummaries : TelemetryPush(s)
    \/ ChannelError
    \/ ResetAllClick
    \/ \E outcome \in {"ok", "failed"} : ResetAllResume(outcome)
    \/ \E text \in PromptTexts, m \in Models \cup {nullStr} : Prompt(text, m)

\* The energy telemetry monitor with a power stream that can fail.
SpecChannel == Init /\ [][NextChannel]_vars

NextSave ==
    \/ \E s \in StudyPushSummaries : TelemetryPush(s)
    \/ \E pid \in ParticipantIds, g \in Groups, n \in Sessions : StudyChange(pid, g, n)
    \/ \E t \in Times : StartTask(t)
    \/ \E t \in Times : EndTask(t)
    \/ \E outcome \in SaveOutcomes : SaveSettles(outcome)
    \/ \E text \in PromptTexts, m \in Models \cup {nullStr} : Prompt(text, m)

\* The study session state machine with the answers of the bundle save.
SpecSave == Init /\ [][NextSave]_vars

NextStreamTask ==
    \/ \E s \in StreamPushSummaries : TelemetryPush(s)
    \/ \E t \in StreamTimes : StartTask(t)
    \/ \E typed \in PromptTexts, m \in Models \cup {nullStr}, t \in StreamTimes :
            Send(typed, m, t)
    \/ \E i \in 1..Len(streams) : ChatDelta(i)
    \/ \E i \in 1..Len(streams), cause \in {"error frame", "transport"} : ChatFail(i, cause)
    \/ \E i \in 1..Len(streams) : ChatDone(i)
    \/ ClearChat

\* The chat pane with its response streams while telemetry arrives and a
\* task is started; the chat tab stays shown.
SpecStreamTask == Init /\ [][NextStreamTask]_vars

----------------------------------------------------------------------------
\* Response streams of the image-analysis pane

ImageApology == <<"Sorry, something went wrong while analyzing the image.">>

\* next[lastIndex] = { ...next[lastIndex], response: accumulatedResponse }
WithResponse(prev, response) ==
    IF Len(prev) > 0
    THEN [prev EXCEPT ![Len(prev)].response = response]
    ELSE prev

\* next[lastIndex] = { prompt: currentPrompt, response: "Sorry, ..." }
WithFailedTurn(prev, currentPrompt) ==
    IF Len(prev) > 0
    THEN [prev EXCEPT ![Len(prev)] = [prompt |-> currentPrompt, response |-> ImageApology]]
    ELSE prev

\* <button onClick={handleAnalyze} disabled={!image || !activeModel}>
CanAnalyze(image, activeModel) == image # nullStr /\ activeModel # nullStr

\* the Analyze button and handleAnalyze up to its await of
\* streamImageAnalysis; the file and the prompt are the fields' contents at
\* the click
Analyze(image, activeModel, prompt) ==
    /\ tab = "image"
    /\ CanAnalyze(image, activeModel)
    /\ IF Trim(prompt) = <<>>
       THEN UNCHANGED <<turns, imageStreaming, streams>>
       ELSE /\ Len(turns) < MaxTurns
            /\ Len(streams) < MaxStreams
            /\ turns' = Append(turns, [prompt |-> Trim(prompt), response |-> <<>>])
            /\ imageStreaming' = TRUE
            /\ streams' = Append(streams, NewStream("image", Trim(prompt)))
    /\ AppUntouched
    /\ UNCHANGED <<messages, tab, isStreaming, thinkingMode, sidePane, pinVars>>

\* streamImageAnalysis reads the next delta frame of stream i and calls
\* onDelta
ImageDelta(i) ==
    /\ IsStream(i, "image")
    /\ Len(streams[i].acc) < MaxDeltas
    /\ LET delta == DeltaOf(Len(streams[i].acc) + 1)
           acc   == Append(streams[i].acc, delta)
       IN  /\ streams' = [streams EXCEPT ![i].acc = acc]
           /\ turns' = IF streams[i].live THEN WithResponse(turns, acc) ELSE turns
    /\ AppUntouched
    /\ UNCHANGED <<messages, tab, isStreaming, imageStreaming, thinkingMode, sidePane, pinVars>>

\* streamImageAnalysis reads an error frame of stream i: it has no delta
\* and nothing else of a frame is looked at, the loop goes on
ImageErrorFrame(i) ==
    /\ IsStream(i, "image")
    /\ streams' = [streams EXCEPT ![i].errored = TRUE]
    /\ AppUntouched
    /\ UNCHANGED <<messages, tab, isStreaming, turns, imageStreaming, thinkingMode, sidePane, pinVars>>

\* the read of the body of stream i fails: the promise rejects,
\* handleAnalyze runs its catch and its finally
ImageFail(i) ==
    /\ IsStream(i, "image")
    /\ turns' = IF streams[i].live
                THEN WithFailedTurn(turns, streams[i].prompt)
                ELSE turns
    /\ imageStreaming' = IF streams[i].live THEN FALSE ELSE imageStreaming
    /\ streams' = Remove(streams, i)
    /\ AppUntouched
    /\ UNCHANGED <<messages, tab, isStreaming, thinkingMode, sidePane, pinVars>>

\* the body of stream i ends: the promise resolves, handleAnalyze runs its
\* finally
ImageDone(i) ==
    /\ IsStream(i, "image")
    /\ imageStreaming' = IF streams[i].live THEN FALSE ELSE imageStreaming
    /\ streams' = Remove(streams, i)
    /\ AppUntouched
    /\ UNCHANGED <<messages, tab, isStreaming, turns, thinkingMode, sidePane, pinVars>>

----------------------------------------------------------------------------
\* Vibe coding pane and web chat pane

\* the mode key whose effective model App hands to the pane of tab t
SideMode(t) == IF t = "vibe" THEN "vibe_coding" ELSE "web"

\* the answers of vibeCode / webChat as the panes distinguish them
SideOutcomes == {"response", "no response", "throws"}

SideReply(t, outcome) ==
    [role |-> "bot",
     text |-> CASE outcome = "response" -> <<"answer">>
              [] outcome = "no response" ->
                    IF t = "vibe" THEN <<"No response from coding assistant.">>
                    ELSE <<"No response from web model.">>
              [] OTHER ->
                    IF t = "vibe"
                    THEN <<"Sorry, something went wrong while talking to the coding model.">>
                    ELSE <<"Sorry, something went wrong while calling the web-enabled model.">>]

SideFrame ==
    /\ AppUntouched
    /\ UNCHANGED <<messages, tab, isStreaming, turns, imageStreaming, thinkingMode,
                   pinVars>>

\* the user types into the ChatInput of the pane
SideType(typed) ==
    /\ tab \in SideTabs
    /\ sidePane' = [sidePane EXCEPT !.text = typed]
    /\ SideFrame
    /\ UNCHANGED streams

\* Enter or the Send button: doSend of ChatInput and handleSend of the pane
\* up to its await of vibeCode / webChat
SideSubmit ==
    /\ tab \in SideTabs
    /\ LET trimmed == Trim(sidePane.text)
           activeModel == EffectiveModel(SideMode(tab))
       IN  IF trimmed = <<>>
           THEN UNCHANGED <<sidePane, streams>>
           ELSE IF Trim(trimmed) = <<>> \/ ~Truthy(activeModel)
           THEN /\ sidePane' = [sidePane EXCEPT !.text = <<>>]
                /\ UNCHANGED streams
           ELSE /\ Len(sidePane.messages) < MaxMsgs
                /\ Len(streams) < MaxStreams
                /\ sidePane' = [messages  |-> Append(sidePane.messages,
                                                [role |-> "user", text |-> Trim(trimmed)]),
                                isLoading |-> TRUE,
                                text      |-> <<>>]
                /\ streams' = Append(streams, NewStream(tab, Trim(trimmed)))
    /\ SideFrame

\* vibeCode / webChat of request i settles: the rest of handleSend
SideAnswer(i, outcome) ==
    /\ i \in 1..Len(streams) /\ streams[i].kind \in SideTabs
    /\ sidePane' = IF streams[i].live
                    THEN [sidePane EXCEPT
                            !.messages = Append(@, SideReply(streams[i].kind, outcome)),
                            !.isLoading = FALSE]
                    ELSE sidePane
    /\ streams' = Remove(streams, i)
    /\ SideFrame

Images == {nullStr, "photo.png"}

NextImage ==
    \/ \E t \in Tabs : TabSwitch(t)
    \/ \E image \in Images, m \in Models \cup {nullStr}, prompt \in ImagePrompts :
            Analyze(image, m, prompt)
    \/ \E i \in 1..Len(streams) : ImageDelta(i)
    \/ \E i \in 1..Len(streams) : ImageErrorFrame(i)
    \/ \E i \in 1..Len(streams) : ImageFail(i)
    \/ \E i \in 1..Len(streams) : ImageDone(i)

\* The image-analysis pane with its response streams.
SpecImage == Init /\ [][NextImage]_vars

\* what the selects of the Models tab offer: nothing chosen, or a model
SelectValues == {""} \cup Models

NextModes ==
    \/ \E value \in SelectValues : SetFastModel(value)
    \/ \E value \in SelectValues : SetDeepModel(value)
    \/ \E mode \in ModeKeys, value \in SelectValues : ModeOverrideChange(mode, value)
    \/ \E defaults \in DefaultsInputs : DefaultsLoaded(defaults)
    \/ DefaultsFailed
    \/ \E mode \in {"fast", "deep"} : SetThinkingMode(mode)
    \/ \E t \in {"chat", "models"} : TabSwitch(t)
    \/ Restart

\* The mode resolution registry: presets, overrides, backend defaults and
\* the thinking mode of the chat pane.
SpecModes == Init /\ [][NextModes]_vars

\* a prompt is submitted in the chat pane, with the model the registry
\* resolves for it at that moment
SubmitChat(typed) ==
    \E t \in StreamTimes : Send(typed, chatActiveModel, t)

NextChatModes ==
    \/ \E typed \in PromptTexts : SubmitChat(typed)
    \/ \E i \in 1..Len(streams) : ChatDone(i)
    \/ ClearChat
    \/ \E value \in SelectValues : SetFastModel(value)
    \/ \E value \in SelectValues : SetDeepModel(value)
    \/ \E value \in SelectValues : ModeOverrideChange("chat", value)
    \/ \E defaults \in DefaultsInputs : DefaultsLoaded(defaults)
    \/ DefaultsFailed
    \/ \E mode \in {"fast", "deep"} : SetThinkingMode(mode)
    \/ \E t \in {"chat", "models"} : TabSwitch(t)

\* The chat pane sending with the model the registry resolves.
SpecChatModes == Init /\ [][NextChatModes]_vars

NextSide ==
    \/ \E t \in SideTabs \cup {"models"} : TabSwitch(t)
    \/ \E typed \in PromptTexts : SideType(typed)
    \/ SideSubmit
    \/ \E i \in 1..Len(streams), outcome \in SideOutcomes : SideAnswer(i, outcome)
    \/ \E mode \in {"vibe_coding", "web"}, value \in SelectValues :
            ModeOverrideChange(mode, value)
    \/ \E defaults \in DefaultsInputs : DefaultsLoaded(defaults)
    \/ DefaultsFailed

\* The vibe coding and web chat panes with the model the registry resolves.
SpecSide == Init /\ [][NextSide]_vars

NextFrames ==
    \/ \E typed \in PromptTexts, m \in Models, t \in StreamTimes, body \in Bodies :
            SendFramed(typed, m, t, body)
    \/ \E i \in 1..Len(streams), k \in 1..MaxRead : ChatRead(i, k)
    \/ \E i \in 1..Len(streams) : ChatEnd(i)
    \/ ClearChat

\* The chat pane with the reads of its response bodies followed one by one.
SpecFrames == Init /\ [][NextFrames]_vars

\* the state after the first push of the app's life, which carried a
\* latest-prompt reading of 0.5 Wh and the totals 2.4 Wh and 12 Wh
InitSeen ==
    /\ promptWhHistory = <<10>>
    /\ lastPromptWhRef = 10
    /\ latestPromptWh = 10
    /\ sessionTotalWh = 48
    /\ todayTotalWh = 240
    /\ kwhUsed = <<240, KwhDivisor>>
    /\ lastPromptEnergyPct = PctOf(10, PromptBaselineWh)
    /\ totalEnergyPct = PctOf(48, SessionBaselineWh)
    /\ litresWater = 0
    /\ study = InitialStudy
    /\ settingsStore = StringifySettings(InitialStudy)
    /\ promptMetrics = <<>>
    /\ s1TotalWh = null
    /\ s1Store = [k \in S1Keys |-> nullStr]
    /\ messages = <<Greeting>>
    /\ currentModel = nullStr
    /\ resetPending = 0
    /\ saveRequest = <<>>
    /\ tab = "chat"
    /\ isStreaming = FALSE
    /\ turns = <<>>
    /\ imageStreaming = FALSE
    /\ sidePane = SidePaneAt("chat")
    /\ pinnedStore = <<>>
    /\ pinnedChats = LoadedPinned(pinnedStore)
    /\ powerStream = "open"
    /\ streams = <<>>
    /\ thinkingMode = "fast"
    /\ fastModel = nullStr
    /\ deepModel = nullStr
    /\ modeDefaults = <<>>
    /\ modeOverrides = [mode \in ModeKeys |-> nullStr]
    /\ overrideKeys = <<>>
    /\ overridesStore = Stringify(<<>>, modeOverrides)
    /\ defaultsPending = <<[fastModel |-> nullStr, deepModel |-> nullStr]>>
    /\ scenPos = ScenarioNext(0, 10)
    /\ seqStep = 0

\* pushes that repeat the reading of 0.5 Wh
RepeatPushSummaries ==
    {[latest_prompt_Wh |-> 10, session_total_Wh |-> t[1], today_total_Wh |-> t[2]] :
        t \in TotalsInputs}

NextRepeat ==
    \/ \E s \in RepeatPushSummaries : TelemetryPush(s)
    \/ \E text \in PromptTexts, m \in Models \cup {nullStr} : Prompt(text, m)
    \/ \E t \in Times : StartTask(t)
    \/ \E t \in Times : EndTask(t)
    \/ ResetAllClick
    \/ \E outcome \in {"ok", "failed"} : ResetAllResume(outcome)

\* The app from its first push on, with a backend that goes on reporting the
\* same latest-prompt reading through prompts, tasks and resets.
SpecRepeat == InitSeen /\ [][NextRepeat]_vars

----------------------------------------------------------------------------
\* What is rendered of the energy figures

\* const showSidebar = hasSidebar && tab === "chat", with
\* hasSidebar = study.group === "intervention"
showSidebar == study.group = "intervention" /\ tab = "chat"

\* the line "Session-1 total energy: ... Wh" of StudyControls, which App
\* renders on the chat tab: it stands in the grid that the Show / Hide
\* button opens (collapsed is controlsCollapsed of App, which that button
\* flips at any time and nothing else reads)
ControlsShowS1(collapsed) ==
    /\ tab = "chat"
    /\ ~collapsed
    /\ study.session = 2
    /\ s1TotalWh # null

\* an energy figure or the impact grade is on the screen
EnergyShown(collapsed) == showSidebar \/ ControlsShowS1(collapsed)

\* the props App passes to Sidebar that computeGrade is called with
SidebarProps ==
    [latestPromptWh |-> latestPromptWh,
     sessionTotalWh |-> sessionTotalWh,
     promptCount    |-> Len(promptMetrics),
     last2AvgWh     |-> last2AvgWh]

\* a prop as Sidebar destructures it: undefined (no number) when App passes
\* none of that name
Prop(props, name) == IF name \in DOMAIN props THEN props[name] ELSE null

\* promptCount from which the grade follows the readings
MinGradedPrompts == 5

\* 0.05, 0.15, 0.5 and 1.5 Wh in units of 0.05 Wh: the upper ends of A to D
GradeThresholds == <<1, 3, 10, 30>>

\* the threshold ladder of computeGrade
GradeOf(v) ==
    IF v <= GradeThresholds[1] THEN "A"
    ELSE IF v <= GradeThresholds[2] THEN "B"
    ELSE IF v <= GradeThresholds[3] THEN "C"
    ELSE IF v <= GradeThresholds[4] THEN "D"
    ELSE "E"

\* computeGrade of Sidebar, typeof x === "number" being x # null
computeGrade(sessionWh, latestWh, promptCount, last5AvgWh) ==
    IF promptCount < MinGradedPrompts THEN "A"
    ELSE GradeOf(IF last5AvgWh # null THEN last5AvgWh
                 ELSE IF sessionWh # null THEN sessionWh
                 ELSE IF latestWh # null THEN latestWh
                 ELSE 0)

\* the grade the sidebar shows: Sidebar reads last5AvgWh from its props
SidebarGrade ==
    computeGrade(Prop(SidebarProps, "sessionTotalWh"),
                 Prop(SidebarProps, "latestPromptWh"),
                 Prop(SidebarProps, "promptCount"),
                 Prop(SidebarProps, "last5AvgWh"))

\* the most prompts followed where the grade is looked at
MaxPrompts == 5

\* pushes for the grade: readings of 0.1, 0.3 and 0.5 Wh (their averages
\* are whole units) with session totals of 0.1 and 2.4 Wh, and a push
\* without a reading
GradePushSummaries ==
    {[latest_prompt_Wh |-> l, session_total_Wh |-> t, today_total_Wh |-> 240] :
        l \in {null, 2, 6, 10}, t \in {2, 48}}

NextGrade ==
    \/ \E s \in GradePushSummaries : TelemetryPush(s)
    \/ \E text \in PromptTexts, m \in Models :
          Len(promptMetrics) < MaxPrompts /\ Prompt(text, m)
    \/ ClearChat
    \/ \E g \in Groups : StudyChange(study.participantId, g, study.session)

\* The sidebar of the intervention group over a conversation long enough
\* for the grade to follow the readings.
SpecGrade == Init /\ [][NextGrade]_vars

----------------------------------------------------------------------------
\* Persisted values and their loading

\* the Pin / Unpin button of the chat pane: handleTogglePin
TogglePin(name) ==
    /\ tab = "chat"
    /\ pinnedStore' = StringifyList(ToggledPinned(LoadedPinned(pinnedStore), name))
    /\ pinnedChats' = LoadedPinned(pinnedStore')
    /\ AppUntouched
    /\ UNCHANGED <<messages, tab, isStreaming, turns, imageStreaming, streams,
                   thinkingMode, sidePane>>

StorageKeys == {"ai4all.modeOverrides", "ai4all.study.settings", "ai4all.pinnedChats"}

\* the longest prefix a cut-short text keeps
MaxCut == 3

\* what localStorage.getItem returns for a value that was cut short outside
\* the app: the first k tokens of the text
StorageTruncated(key, k) ==
    LET cut(text) == SubSeq(text, 1, k)
    IN  /\ key \in StorageKeys
        /\ k \in 1..MaxCut
        /\ overridesStore' = IF key = "ai4all.modeOverrides" /\ k < Len(overridesStore)
                              THEN cut(overridesStore) ELSE overridesStore
        /\ settingsStore' = IF key = "ai4all.study.settings" /\ k < Len(settingsStore)
                             THEN cut(settingsStore) ELSE settingsStore
        /\ pinnedStore' = IF key = "ai4all.pinnedChats" /\ k < Len(pinnedStore)
                           THEN cut(pinnedStore) ELSE pinnedStore
        /\ <<overridesStore', settingsStore', pinnedStore'>>
               # <<overridesStore, settingsStore, pinnedStore>>
        /\ saveRequest' = <<>>
        /\ seqStep' = IF seqStep = 3 THEN 0 ELSE seqStep
        /\ UNCHANGED <<energyVars, study, promptMetrics, s1TotalWh, s1Store, messages,
                       currentModel, resetPending, scenPos, tab, isStreaming, turns,
                       imageStreaming, streams, thinkingMode, sidePane, pinnedChats,
                       fastModel, deepModel, modeDefaults, modeOverrides, overrideKeys,
                       defaultsPending>>

\* a stored text that JSON.parse rejects
Malformed(key, text) ==
    /\ text # <<>>
    /\ IF key = "ai4all.pinnedChats" THEN ~IsArrayText(text) ELSE ~IsObjectText(text)

NextLoad ==
    \/ \E key \in StorageKeys, k \in 1..MaxCut : StorageTruncated(key, k)
    \/ Restart
    \/ \E t \in {"chat", "models"} : TabSwitch(t)
    \/ \E name \in ChatNames : TogglePin(name)
    \/ \E pid \in ParticipantIds, g \in Groups : StudyChange(pid, g, study.session)
    \/ \E d \in DefaultsInputs : DefaultsLoaded(d)
    \/ \E v \in {"", "m1"} : ModeOverrideChange("chat", v)

\* The persisted values, cut short from outside, and the loads that read
\* them: the page load and the mount of the chat pane.
SpecLoad == Init /\ [][NextLoad]_vars

----------------------------------------------------------------------------
\* Properties of the energy telemetry monitor (under SpecEnergy)

LatestOf(s) == OrZero(s.latest_prompt_Wh)

C2_NoEqualAdjacentEntries ==
    \A i \in 1..(Len(promptWhHistory) - 1) :
        promptWhHistory[i] # promptWhHistory[i + 1]

\* C2 as amended: a push that carries the same latest-prompt reading as the
\* push immediately before it (no reset between them) is not admitted, the
\* window is unchanged; two equal entries can become adjacent only when a
\* push with another reading, such as zero, came between them.
C2_RepeatOfPreviousPushNotAdmitted ==
    [][\A s \in PushSummaries :
          (TelemetryPush(s) /\ LatestOf(s) = latestPromptWh)
              => promptWhHistory' = promptWhHistory]_vars

\* the pushes 0.3, 0.3 were seen and the window holds one entry
C2_Witness == scenPos = 2 /\ promptWhHistory = <<6>>

\* C3: a push whose latest-prompt Wh is zero, or equal to the last-seen
\* reading, leaves the Rolling Window unchanged and sets the last-seen
\* tracker to its value; a push identical to the push before it never
\* changes the window.
C3_ZeroOrRepeatLeavesWindow ==
    [][\A s \in PushSummaries :
          /\ (TelemetryPush(s) /\ (LatestOf(s) = 0 \/ LatestOf(s) = lastPromptWhRef))
                => /\ promptWhHistory' = promptWhHistory
                   /\ lastPromptWhRef' = LatestOf(s)
          /\ (TelemetryPush(s) /\ LatestOf(s) = latestPromptWh
                               /\ OrZero(s.session_total_Wh) = sessionTotalWh
                               /\ OrZero(s.today_total_Wh) = todayTotalWh)
                => promptWhHistory' = promptWhHistory]_vars

\* a zero push arrived after a reading was admitted: the window kept the
\* reading and the tracker holds zero
C3_Witness ==
    promptWhHistory = <<6>> /\ latestPromptWh = 0 /\ lastPromptWhRef = 0

C5_AverageIsMean ==
    /\ Len(promptWhHistory) = 0 => last2AvgWh = null
    /\ Len(promptWhHistory) = 1 => last2AvgWh = promptWhHistory[1]
    /\ Len(promptWhHistory) = 2 =>
          2 * last2AvgWh = promptWhHistory[1] + promptWhHistory[2]
    /\ scenPos = 3 => promptWhHistory = <<6, 10>> /\ last2AvgWh = 8

\* the pushes 0.3, 0.3, 0.5 were seen
C5_Witness == scenPos = 3 /\ last2AvgWh # null

----------------------------------------------------------------------------
\* Properties of the study session state machine (under Spec)

\* the local reset ran in this step
ResetApplied ==
    \/ ResetAllClick /\ ~AwaitsBackend(currentModel)
    \/ \E outcome \in {"ok", "failed"} : ResetAllResume(outcome)

\* what the local reset leaves behind
LocallyCleared ==
    /\ Idle
    /\ promptMetrics = <<>>
    /\ messages = <<Greeting>>
    /\ latestPromptWh = null /\ sessionTotalWh = null /\ todayTotalWh = null
    /\ promptWhHistory = <<>>

\* C6: a start, the end of that task and the reset that follows leave the
\* Study Settings idle (both timestamps cleared) with an empty per-prompt
\* metric list, whatever prompts and pushes came in between.
C6_StartEndResetLeavesIdle ==
    seqStep = 3 => Idle /\ promptMetrics = <<>>

C6_Witness == seqStep = 3 /\ Idle /\ currentModel # nullStr

\* C7: end takes effect only in the running state: the End handler runs
\* only while running, and in idle or ended no step sets an end timestamp,
\* persists a session-1 snapshot or saves a bundle.
C7_EndOnlyWhileRunning ==
    /\ [][(\E t \in Times : EndTask(t)) => Running]_vars
    /\ [][~Running =>
            /\ saveRequest' = <<>>
            /\ s1Store' = s1Store
            /\ study'.taskEndedAt \in {study.taskEndedAt, null}]_vars

\* an end has just run in session 1: the bundle is out, the snapshot stored
C7_Witness ==
    /\ Ended /\ saveRequest # <<>>
    /\ study.session = 1 /\ s1Store[S1Key(study.participantId)] = "2.4"

\* C8: start is taken only from idle or ended, never while running; it
\* sets the start timestamp to the current time, clears the end timestamp
\* and empties the per-prompt metric list: running with zero metrics.
C8_StartOnlyWhenNotRunning ==
    /\ [][\A t \in Times :
            StartTask(t) =>
                /\ ~Running
                /\ study'.taskStartedAt = t
                /\ study'.taskEndedAt = null
                /\ promptMetrics' = <<>>
                /\ IsRunning(study')]_vars
    /\ [][Running => study'.taskStartedAt \in {study.taskStartedAt, null}]_vars

\* a task was started again after an earlier one had ended and been saved
C8_Witness ==
    /\ Running /\ promptMetrics = <<>> /\ seqStep = 1
    /\ s1Store["anon"] = "2.4"

\* C9: reset's effects are never applied while the state is running.
C9_ResetNeverWhileRunning == [][ResetApplied => ~Running]_vars

\* C10: reset issues the backend request only when a model is known, and
\* the request never blocks the local reset: the handler's run performs the
\* local clearing whether or not the request has been answered.
C10_ResetNotBlockedByBackend ==
    [][ResetAllClick =>
          /\ (resetPending' > resetPending => AwaitsBackend(currentModel))
          /\ LocallyCleared']_vars

\* the session-1 snapshot stored for the participant of the Study Settings
StoredS1 == StringToWh(s1Store[S1Key(study.participantId)])

\* C11: an end in session 1 with session-cumulative energy w stores w under
\* the participant's key; the stored value changes only by a session-1 end
\* of that participant (never by an end in session 2); and whenever the
\* Study Settings show session 2 for a participant with a stored snapshot,
\* the reference session-1 total is that snapshot.
C11_SessionOneReferenceKept ==
    /\ [][\A t \in Times :
            (EndTask(t) /\ study.session = 1 /\ sessionTotalWh # null)
                => StringToWh(s1Store'[S1Key(study.participantId)]) = sessionTotalWh]_vars
    /\ [][\A k \in S1Keys :
            s1Store'[k] # s1Store[k]
                => /\ \E t \in Times : EndTask(t)
                   /\ study.session = 1
                   /\ S1Key(study.participantId) = k]_vars
    /\ []((study.session = 2 /\ StoredS1 # null) => s1TotalWh = StoredS1)

\* C12: a change of the participant id made while not running leaves the
\* session-1 reference equal to the snapshot stored for the new id, or null
\* (no reference available) when none is stored, the empty id included.
C12_ParticipantChangeLooksUp ==
    [][\A pid \in ParticipantIds, g \in Groups, n \in Sessions :
          (StudyChange(pid, g, n) /\ pid # study.participantId /\ ~Running)
              => s1TotalWh' = StringToWh(s1Store[S1Key(pid)])]_vars

\* C13: a Prompt Metric is appended to the per-prompt metric list only for
\* prompts submitted while the state is running; a prompt submitted in idle
\* or ended leaves the list as it was.
C13_MetricsOnlyWhileRunning ==
    [][\A typed \in PromptTexts, m \in Models \cup {nullStr} :
          (Prompt(typed, m) /\ ~Running) => promptMetrics' = promptMetrics]_vars

----------------------------------------------------------------------------
\* Properties of the response streams (under SpecStream)

Last(q) == q[Len(q)]
Front(q) == SubSeq(q, 1, Len(q) - 1)
BotMessage(text) == [role |-> "bot", text |-> text]

\* C14: while a chat stream is the only one in flight, its k-th delta
\* leaves the transcript ending with a bot message whose text is the
\* deltas 1..k in arrival order; it touches no message before the tail; a
\* delta that finds the previous partial text at the tail replaces it (the
\* transcript does not grow), and the first delta, which finds the user
\* message there, appends the one bot message of the exchange.
C14_DeltaReplacesPartial ==
    [][\A i \in 1..Len(streams) :
          (ChatDelta(i) /\ Len(streams) = 1 /\ streams[i].live) =>
            LET acc == streams[i].acc
                k   == Len(acc) + 1
                now == Append(acc, DeltaOf(k))
            IN  /\ streams'[i].acc = now
                /\ Last(messages') = BotMessage(now)
                /\ Front(messages') \in {messages, Front(messages)}
                /\ (k > 1 /\ Last(messages) = BotMessage(acc))
                      => Front(messages') = Front(messages)
                /\ Last(messages).role = "user"
                      => messages' = Append(messages, BotMessage(now))]_vars

\* the second delta of an only stream is shown, after the greeting and the
\* user message
C14_Witness ==
    /\ Len(streams) = 1 /\ streams[1].live
    /\ streams[1].acc = <<DeltaOf(1), DeltaOf(2)>>
    /\ Len(messages) = 3
    /\ messages[2].role = "user"
    /\ messages[3] = BotMessage(<<DeltaOf(1), DeltaOf(2)>>)

\* the streams of the mounted pane of the given kind
InFlight(kind) == {i \in 1..Len(streams) : streams[i].kind = kind /\ streams[i].live}

\* C15: at most one response stream is in flight for the chat pane at any
\* time.
C15_AtMostOneStreamInFlight == Cardinality(InFlight("chat")) <= 1

\* an error frame of stream i is read in this step
ErrorFrameRead(i) == ChatFail(i, "error frame") \/ ImageErrorFrame(i)

\* the read of the body of stream i fails in this step
TransportFails(i) == ChatFail(i, "transport") \/ ImageFail(i)

\* the streaming operation i ends in this step: its handler run is over
OperationEnds(i) == Len(streams') = Len(streams) - 1 /\ streams' = Remove(streams, i)

\* C16: for the chat stream and for the image-analysis stream, an error
\* frame or a transport failure ends the streaming operation (it rejects),
\* and no frame of a stream is passed on after an error frame of it.
C16_ErrorEndsStream ==
    /\ [][\A i \in 1..Len(streams) :
            (ErrorFrameRead(i) \/ TransportFails(i)) => OperationEnds(i)]_vars
    /\ [][\A i \in 1..Len(streams) :
            (ChatDelta(i) \/ ImageDelta(i)) => ~streams[i].errored]_vars

\* C17: the failure of a chat stream of the mounted pane appends exactly
\* the apology message to the transcript, keeps every message that was
\* there (the partial text included) and changes neither the per-prompt
\* metric list, nor the Energy Summary, nor the Rolling Window, nor the
\* study timestamps.
C17_FailureAppendsApology ==
    [][\A i \in 1..Len(streams), cause \in {"error frame", "transport"} :
          (ChatFail(i, cause) /\ streams[i].live) =>
              /\ Len(messages') = Len(messages) + 1
              /\ Front(messages') = messages
              /\ Last(messages') = Apology
              /\ promptMetrics' = promptMetrics
              /\ latestPromptWh' = latestPromptWh
              /\ sessionTotalWh' = sessionTotalWh
              /\ todayTotalWh' = todayTotalWh
              /\ promptWhHistory' = promptWhHistory
              /\ study'.taskStartedAt = study.taskStartedAt
              /\ study'.taskEndedAt = study.taskEndedAt]_vars

\* a stream failed after two deltas, during a task with a prompt recorded
\* and telemetry received: the partial text stands before the apology
C17_Witness ==
    /\ Len(messages) = 4
    /\ messages[3] = BotMessage(<<DeltaOf(1), DeltaOf(2)>>)
    /\ messages[4] = Apology
    /\ streams = <<>>
    /\ Running /\ promptMetrics # <<>> /\ sessionTotalWh = 48

\* a frame of stream i, or the end of its body, is read in this step
FrameConsumed(i) ==
    \/ ChatDelta(i)
    \/ \E cause \in {"error frame", "transport"} : ChatFail(i, cause)
    \/ ChatDone(i)

\* C18: once its chat surface is unmounted (by a tab switch or by the
\* remount of a reset) a response stream is closed: no further frame of it
\* is consumed.
C18_UnmountClosesStream ==
    [][\A i \in 1..Len(streams) : FrameConsumed(i) => streams[i].live]_vars

\* C19: the model the chat pane sends with is the deep preset when the
\* reasoning profile is deep and the deep preset is set, else the fast
\* preset when the profile is fast and the fast preset is set, else the
\* generic effective model of the chat mode (the chat override, else the
\* backend chat default, else nothing)
C19_ChatEffectiveModel ==
    chatActiveModel =
        IF thinkingMode = "deep" /\ deepModel # nullStr THEN deepModel
        ELSE IF thinkingMode = "fast" /\ fastModel # nullStr THEN fastModel
        ELSE IF modeOverrides["chat"] # nullStr THEN modeOverrides["chat"]
        ELSE IF modeDefaults # <<>> THEN modeDefaults[1]["chat"].default
        ELSE nullStr

\* deep profile, deep preset set, and a different chat override and chat
\* default: the pane sends with the deep preset
C19_Witness ==
    /\ tab = "chat"
    /\ thinkingMode = "deep"
    /\ deepModel = "preset"
    /\ fastModel = nullStr
    /\ modeOverrides["chat"] = "m1"
    /\ modeDefaults # <<>>
    /\ chatActiveModel = "preset"

\* the backend default of a mode, nullStr while the defaults are not loaded
BackendDefault(mode) ==
    IF modeDefaults = <<>> THEN nullStr ELSE modeDefaults[1][mode].default

\* C20: for each of the four mode keys the effective model is the override
\* when one is present, else the backend default when loaded, else unset;
\* and removing an override leaves exactly the backend default of the mode
C20_EffectiveModelPerMode ==
    /\ [](\A mode \in ModeKeys :
            EffectiveModel(mode) =
                IF modeOverrides[mode] # nullStr THEN modeOverrides[mode]
                ELSE BackendDefault(mode))
    /\ [][\A mode \in ModeKeys :
            ModeOverrideChange(mode, "")
                => /\ modeOverrides'[mode] = nullStr
                   /\ EffectiveModel(mode)' = BackendDefault(mode)
                   /\ \A other \in ModeKeys \ {mode} :
                         modeOverrides'[other] = modeOverrides[other]]_vars

\* defaults loaded, the chat mode overridden and the image mode not: the
\* chat mode resolves to its override and the image mode to its default
C20_Witness ==
    /\ tab = "models"
    /\ modeDefaults # <<>>
    /\ modeOverrides["chat"] = "m1"
    /\ modeOverrides["image"] = nullStr
    /\ EffectiveModel("chat") = "m1"
    /\ EffectiveModel("image") = "d-image"
    /\ EffectiveModel("web") = nullStr

\* C21: after any sequence of override set / remove operations the stored
\* override map, read back as on a restart, is the in-memory map as a
\* mapping (whatever the order of its keys), and a restart resumes with it
C21_OverrideMapRoundTrip ==
    /\ [](/\ ParsedMap(overridesStore) = modeOverrides
          /\ {ParsedKeys(overridesStore)[i] : i \in 1..Len(ParsedKeys(overridesStore))}
                = {mode \in ModeKeys : modeOverrides[mode] # nullStr})
    /\ [][Restart => modeOverrides' = modeOverrides]_vars

\* two overrides set in the order web, chat have come back from storage:
\* the defaults are not loaded yet, so the map was not built in this run
C21_Witness ==
    /\ overrideKeys = <<"web", "chat">>
    /\ modeOverrides["web"] = "m1" /\ modeOverrides["chat"] = "m1"
    /\ modeDefaults = <<>>
    /\ overridesStore = <<"{", "web", ":", "m1", ",", "chat", ":", "m1", "}">>

\* C22: when the backend's defaults arrive, a preset that has a local
\* value is left as it is, also when the user set it after the
\* application started and before the defaults arrived
C22_SeedingNeverOverwrites ==
    [][\A defaults \in DefaultsInputs :
          DefaultsLoaded(defaults)
              => /\ fastModel # nullStr => fastModel' = fastModel
                 /\ deepModel # nullStr => deepModel' = deepModel]_vars

\* no preset for the active profile, no chat override, no loaded default
ChatUnresolved ==
    /\ (IF thinkingMode = "deep" THEN deepModel ELSE fastModel) = nullStr
    /\ modeOverrides["chat"] = nullStr
    /\ BackendDefault("chat") = nullStr

\* C23: a prompt submitted in the chat pane while no model is resolved
\* opens no stream (no network call) and grows the transcript by exactly
\* one message, the guidance message
C23_NoModelGuidanceOnly ==
    [][\A typed \in PromptTexts :
          (SubmitChat(typed) /\ Trim(typed) # <<>> /\ ChatUnresolved)
              => /\ streams' = streams
                 /\ isStreaming' = isStreaming
                 /\ messages' = Append(messages, Guidance)
                 /\ promptMetrics' = promptMetrics]_vars

\* the guidance message is the only message after the greeting and no
\* stream is open, with still no model resolved
C23_Witness ==
    /\ tab = "chat"
    /\ ChatUnresolved
    /\ messages = <<Greeting, Guidance>>
    /\ streams = <<>>
    /\ promptMetrics = <<>>

\* a prompt is submitted in the vibe coding or web pane while the mode has
\* no effective model
SideSubmitUnresolved ==
    /\ SideSubmit
    /\ Trim(sidePane.text) # <<>>
    /\ modeOverrides[SideMode(tab)] = nullStr
    /\ BackendDefault(SideMode(tab)) = nullStr

\* C24: in the coding, web and image modes a submission attempted before
\* an effective model is known for the mode makes no network call and
\* emits a guidance message (the transcript grows by one bot message)
C24_SideGuidance ==
    [][SideSubmitUnresolved
          => /\ streams' = streams
             /\ Len(sidePane'.messages) = Len(sidePane.messages) + 1
             /\ Last(sidePane'.messages).role = "bot"]_vars

\* the value a push carries in a field, an absent field counting as 0
Carried(x) == IF x = null THEN 0 ELSE x

EnergySummary == <<latestPromptWh, sessionTotalWh, todayTotalWh>>

\* C25: a telemetry push leaves the latest-prompt, session-cumulative and
\* day-cumulative fields equal to what it carried (an absent field counting
\* as 0), whether or not a chat stream is in flight; the deltas, the
\* completion and the failure of a chat stream leave these fields alone
C25_PushesIndependentOfStreams ==
    /\ [][\A s \in InFlightPushSummaries :
            TelemetryPush(s)
                => EnergySummary' = <<Carried(s.latest_prompt_Wh),
                                      Carried(s.session_total_Wh),
                                      Carried(s.today_total_Wh)>>]_vars
    /\ [][\A i \in 1..Len(streams) :
            FrameConsumed(i) => EnergySummary' = EnergySummary]_vars

\* the fields hold zeros after a first reading was windowed: a push with
\* absent fields followed one with 0.5 Wh, and a response is mid-stream
C25_Witness ==
    /\ EnergySummary = <<0, 0, 0>>
    /\ promptWhHistory = <<10>>
    /\ Len(streams) = 1 /\ streams[1].live /\ streams[1].acc = <<DeltaOf(1)>>

\* C26: both legacy percentage metrics lie within [0, 100] after every
\* telemetry push, whatever numbers the push carries
C26_PctWithinRange ==
    /\ 0 <= lastPromptEnergyPct /\ lastPromptEnergyPct <= 100
    /\ 0 <= totalEnergyPct /\ totalEnergyPct <= 100

\* C27: once the telemetry channel has reported an error the subscription
\* is closed and stays closed, and no later push reaches the Energy Summary
\* or the Rolling Window: every push that is processed finds the channel
\* open and without an error so far
C27_ErrorClosesChannel ==
    /\ [][powerStream # "open" => powerStream' = "closed"]_vars
    /\ [][ChannelError => powerStream' = "closed"]_vars
    /\ [][\A s \in PushSummaries :
            (EnergySummary' # EnergySummary \/ promptWhHistory' # promptWhHistory)
              /\ TelemetryPush(s)
                => powerStream = "open"]_vars

\* the channel failed after a push of 0.5 Wh was processed
C27_Witness ==
    /\ powerStream = "closed"
    /\ latestPromptWh = 10
    /\ promptWhHistory = <<10>>

\* C28: the bundle handed over on end is named after the trimmed
\* participant id ("anon" for an empty one) and the session ordinal, and
\* carries the full transcript, the full metric list of the window, the
\* group, the start timestamp and the end timestamp that end has just set
C28_BundleOnEnd ==
    [][\A t \in Times :
          EndTask(t)
            => /\ Len(saveRequest') = 1
               /\ LET bundle == saveRequest'[1]
                  IN  /\ bundle.name =
                            <<IF TrimId(study.participantId) = "" THEN "anon"
                              ELSE TrimId(study.participantId),
                              "_s", study.session>>
                      /\ bundle.history = messages
                      /\ bundle.metrics = promptMetrics
                      /\ bundle.session.group = study.group
                      /\ bundle.session.taskStartedAt = study.taskStartedAt
                      /\ bundle.session.taskEndedAt = t
                      /\ study'.taskEndedAt = t]_vars

\* a task of an unnamed participant in session 2 has just ended with one
\* prompt in its window and in its transcript
C28_Witness ==
    /\ Len(saveRequest) = 1
    /\ saveRequest[1].name = <<"anon", "_s", 2>>
    /\ Len(saveRequest[1].metrics) = 1
    /\ Len(saveRequest[1].history) = 2
    /\ saveRequest[1].session.taskEndedAt = study.taskEndedAt
    /\ Ended

\* everything of the state that some component renders
Rendered ==
    <<study, promptMetrics, s1TotalWh, messages, currentModel,
      promptWhHistory, latestPromptWh, sessionTotalWh, todayTotalWh, kwhUsed,
      lastPromptEnergyPct, totalEnergyPct, litresWater,
      paneVars, fastModel, deepModel, modeDefaults, modeOverrides>>

\* C29: when the bundle save fails in transport or gets a non-OK response,
\* a failure indication becomes visible: something rendered changes
C29_SaveFailureSurfaced ==
    [][\A outcome \in SaveOutcomes \ {"ok"} :
          SaveSettles(outcome) => Rendered' # Rendered]_vars

\* C30: a failing bundle save rolls nothing of the end transition back,
\* and neither does a save that is never answered: after end the state is
\* ended with the end timestamp set, the metric list is as it was, and for
\* session 1 with a known total the snapshot is stored, whatever becomes
\* of the save
C30_SaveFailureKeepsEnd ==
    /\ [][\A outcome \in SaveOutcomes \ {"ok"} :
            SaveSettles(outcome)
                => /\ Ended /\ Ended'
                   /\ study' = study
                   /\ promptMetrics' = promptMetrics
                   /\ s1Store' = s1Store /\ s1TotalWh' = s1TotalWh]_vars
    /\ [][\A t \in Times :
            EndTask(t)
                => /\ Ended' /\ study'.taskEndedAt = t
                   /\ promptMetrics' = promptMetrics
                   /\ (study.session = 1 /\ sessionTotalWh # null)
                        => StringToWh(s1Store'[S1Key(study.participantId)])
                                = sessionTotalWh]_vars

\* a session-1 task with one prompt has ended, its snapshot of 2.4 Wh is
\* stored and no save request is waiting any more
C30_Witness ==
    /\ Ended
    /\ seqStep = 2
    /\ saveRequest = <<>>
    /\ study.session = 1
    /\ StoredS1 = 48
    /\ Len(promptMetrics) = 1

\* the Study Settings the stored text stands for
StoredStudy ==
    [participantId |-> StringOfText(MemberText(settingsStore, "participantId"), ParticipantIds),
     group         |-> StringOfText(MemberText(settingsStore, "group"), Groups),
     session       |-> NumberOfText(MemberText(settingsStore, "session"), Sessions),
     taskStartedAt |-> NumberOfText(MemberText(settingsStore, "taskStartedAt"), Times),
     taskEndedAt   |-> NumberOfText(MemberText(settingsStore, "taskEndedAt"), Times)]

\* C31: the value stored under the study-settings key is the current Study
\* Settings, after every change of the participant id, the group, the
\* session ordinal, the start timestamp or the end timestamp
C31_SettingsPersisted == StoredStudy = study

----------------------------------------------------------------------------
\* Properties of the persisted values (under SpecLoad)

NoOverrides == [mode \in ModeKeys |-> nullStr]

\* C32: a load that finds a text JSON.parse rejects under the key of the
\* mode override map, of the study settings or of the pinned-chat list
\* yields what it yields for an absent value (no override, the default
\* settings, no pinned chat), and the app comes up on its chat tab with the
\* greeting: the error does not reach the user
C32_MalformedIsAbsent ==
    [][Restart =>
         /\ tab' = "chat" /\ messages' = <<Greeting>>
         /\ Malformed("ai4all.modeOverrides", overridesStore)
               => modeOverrides' = NoOverrides /\ overrideKeys' = <<>>
         /\ Malformed("ai4all.study.settings", settingsStore) => study' = InitialStudy
         /\ Malformed("ai4all.pinnedChats", pinnedStore) => pinnedChats' = <<>>]_vars

\* a chat pane mounted on a pinned-chat text that was cut short after its
\* first name shows no pinned chat
C32_Witness ==
    /\ tab = "chat"
    /\ Malformed("ai4all.pinnedChats", pinnedStore)
    /\ Len(pinnedStore) >= 2
    /\ pinnedChats = <<>>

----------------------------------------------------------------------------
\* Properties of the terminal frame (under SpecStream)

\* C33: when a chat stream of the mounted pane completes with a terminal
\* frame, the last message of the transcript is the bot message of the
\* exchange and carries exactly one Inference Result, the one of the frame
C33_ResultAttached ==
    [][\A i \in 1..Len(streams), metrics \in InferenceResults :
         ChatComplete(i, metrics) /\ streams[i].live /\ streams[i].acc # <<>>
           => /\ messages'[Len(messages')].role = "bot"
              /\ Attached(messages'[Len(messages')]) = <<metrics>>]_vars

----------------------------------------------------------------------------
\* Properties of the reads of a response body (under SpecFrames)

\* C34: when the body of a chat stream has been read to its end, the text
\* delivered to the caller is the in-order concatenation of the deltas of
\* all its delta frames, however the transport cut the body into reads
C34_DeliveredIsConcatenation ==
    [][\A i \in 1..Len(streams) :
         ChatEnd(i) => streams[i].acc = DeltasOf(streams[i].body)]_vars

----------------------------------------------------------------------------
\* Properties of the transcript under deltas (under SpecStream)

\* the transcript without the partial bot message of the exchange whose
\* accumulator is acc
WithoutOwnPartial(m, acc) ==
    IF acc # <<>> /\ m # <<>> /\ m[Len(m)] = [role |-> "bot", text |-> acc]
    THEN SubSeq(m, 1, Len(m) - 1)
    ELSE m

\* C35: a delta of a stream of the mounted chat pane creates or replaces the
\* bot message of its own exchange and leaves every other message of the
\* transcript in place
C35_DeltaKeepsOtherMessages ==
    [][\A i \in 1..Len(streams) :
         ChatDelta(i) /\ streams[i].live
           => /\ messages' # <<>>
              /\ SubSeq(messages', 1, Len(messages') - 1)
                    = WithoutOwnPartial(messages, streams[i].acc)]_vars

----------------------------------------------------------------------------
\* Properties of the Rolling Window after a reset (under SpecRepeat)

\* C36: with every push repeating the reading that was seen before the
\* reset, a Rolling Window that a reset has cleared stays empty
C36_RepeatAfterResetNotAdmitted ==
    [][\A s \in RepeatPushSummaries :
         TelemetryPush(s) /\ promptWhHistory = <<>> => promptWhHistory' = <<>>]_vars

----------------------------------------------------------------------------
\* Properties of the tabs (under SpecStream)

\* C37: a tab switch, away from the chat tab or back to it, leaves the
\* transcript App holds for the bundle as it was
C37_TabSwitchKeepsTranscript ==
    [][\A t \in Tabs : TabSwitch(t) => messages' = messages]_vars

----------------------------------------------------------------------------
\* Properties of the energy figures on the screen (under Spec)

\* C38: while the group is control no energy figure and no impact grade is
\* on the screen, whether the study controls are open or not
C38_ControlSeesNoEnergy ==
    study.group = "control" => \A collapsed \in BOOLEAN : ~EnergyShown(collapsed)

----------------------------------------------------------------------------
\* Properties of the impact grade (under SpecGrade)

\* C39: the grade of the rendered sidebar is A while fewer than 5 prompts
\* were recorded; from 5 prompts on it is the grade of the Rolling Window
\* average when the window holds a reading, else of the session total, else
\* of the latest prompt reading
C39_GradeFromWindowAverage ==
    showSidebar =>
        SidebarGrade =
            IF Len(promptMetrics) < 5 THEN "A"
            ELSE IF promptWhHistory # <<>> THEN GradeOf(last2AvgWh)
            ELSE IF sessionTotalWh # null THEN GradeOf(sessionTotalWh)
            ELSE IF latestPromptWh # null THEN GradeOf(latestPromptWh)
            ELSE "A"

====
